---- MODULE Spec2Model ----
(***************************************************************************)
(* Turn resolution and ending state machines of the two games (the dating  *)
(* simulator "Read the Room" and the debate simulator "The Paperclip       *)
(* Protocol") together with the memory-log inventory of the debate game.   *)
(* One session of either variant is modelled; the requests of the HTTP     *)
(* layer (turn, silence penalty, /logs) are the actions.  The classifier,  *)
(* the narrator and the random jitter are inputs; a session draws them     *)
(* from the menu of its input profile.                                     *)
(***************************************************************************)
EXTENDS Integers, Sequences, FiniteSets, TLC

VARIABLES
    mode,                       \* which variant the session belongs to
    \* ---- GameState (dating) ----
    vibe, trust, tension,
    turn,                       \* GameState.turn / PaperclipGameState.turn
    lockout_turns,
    act,
    previous_response_quality,
    consecutive_low_effort,
    recovery_mode, recovery_stat,
    game_over, game_over_reason,
    history,                    \* sequence of turn records
    \* ---- PaperclipGameState (debate) ----
    coherence, alignment, compute,
    weights,                    \* [carbon, complexity, verify], fixed point
    processing_state,
    \* ---- MemoryLogManager ----
    assigned_logs, used_logs,
    \* ---- IntuitionGenerator, one instance shared by all dating sessions ----
    last_hint_category,
    \* ---- further fields of history[-1]: the stats after the turn and the
    \*      hint recorded in the last Turn ----
    last_turn,
    \* ---- GameState.critical_events: the descriptions of the events in the
    \*      list (neither their order nor their turn numbers are kept) ----
    critical_events,
    \* ---- the turn requests the server has accepted for this session and
    \*      not yet handled: [pending, served, since], since being the turn
    \*      counter when they arrived ----
    in_flight,
    \* ---- what the last request returned ----
    response,
    \* ---- the inputs this session is driven with ----
    profile

vars == <<mode, vibe, trust, tension, turn, lockout_turns, act,
          previous_response_quality, consecutive_low_effort,
          recovery_mode, recovery_stat, game_over, game_over_reason, history,
          coherence, alignment, compute, weights, processing_state,
          assigned_logs, used_logs, last_hint_category, last_turn,
          critical_events, in_flight, response, profile>>

datingVars == <<vibe, trust, tension, lockout_turns, act,
                previous_response_quality, consecutive_low_effort,
                recovery_mode, recovery_stat>>

debateVars == <<coherence, alignment, compute, weights, processing_state,
                assigned_logs, used_logs>>

hintVars == <<last_hint_category, last_turn>>

None == "None"

\* the tags of a response that carries none
NoTags == [flags |-> <<>>, intent |-> None]

Max(a, b) == IF a >= b THEN a ELSE b
Min(a, b) == IF a <= b THEN a ELSE b

\* int(x * num / den) of Python: the product truncated toward zero.
TruncMul(x, num, den) ==
    IF x >= 0 THEN (x * num) \div den ELSE -(((-x) * num) \div den)

InFlags(f, flags) == \E i \in DOMAIN flags : flags[i] = f

AnyFlag(S, flags) == \E i \in DOMAIN flags : flags[i] \in S

(***************************************************************************)
(* backend/config.py                                                       *)
(***************************************************************************)
VIBE_HIGH_THRESHOLD == 70
TRUST_ICK_THRESHOLD == 40
TENSION_SPARK_THRESHOLD == 50
KISS_WIN_TRUST == 70
KISS_WIN_VIBE == 60
KISS_WIN_TENSION == 80
KISS_HARD_REJECT_TRUST == 60
ACT_1_TURNS == 8
ACT_2_TURNS == 16
TURN_CEILING == 20
SOFT_REJECTION_LOCKOUT == 5
A_RANK_TRUST == 85
A_RANK_VIBE == 80
A_RANK_MAX_TENSION == 70
D_RANK_MIN_TRUST == 70
D_RANK_MAX_TENSION == 40
FUMBLE_MIN_TRUST == 60
FUMBLE_MIN_TENSION == 60
PHASE_ICEBREAKER_END == 5
PHASE_DEEP_DIVE_END == 15
ICEBREAKER_TENSION_CAP == 40
ICEBREAKER_STAT_CAP == 50
DEEP_DIVE_TENSION_CAP == 70
DEEP_DIVE_STAT_CAP == 80
RECOVERY_SAFE_ZONE == 15
CONTENT_VIOLATION_TRUST == -50
CONTENT_VIOLATION_VIBE == -30
CONTENT_VIOLATION_FLAGS == {"inappropriate_sexual", "profanity_heavy", "harassment"}

\* SCORING_MATRIX.get(intent, {}).get(modifier, [0, 0, 0])
SCORING_MATRIX(intent, modifier) ==
    CASE intent = "Compliment" /\ modifier = "Generic"   -> <<-5, 0, -5>>
      [] intent = "Compliment" /\ modifier = "Unique"    -> <<5, 5, 5>>
      [] intent = "Compliment" /\ modifier = "Risky"     -> <<-10, -5, 15>>
      [] intent = "Compliment" /\ modifier = "Desperate" -> <<-10, -10, -20>>
      [] intent = "Question" /\ modifier = "Generic"     -> <<-5, 0, 0>>
      [] intent = "Question" /\ modifier = "Unique"      -> <<10, 5, 0>>
      [] intent = "Question" /\ modifier = "Risky"       -> <<0, -5, 10>>
      [] intent = "Joke" /\ modifier = "Generic"         -> <<-5, 0, 0>>
      [] intent = "Joke" /\ modifier = "Unique"          -> <<15, 5, 5>>
      [] intent = "Joke" /\ modifier = "Risky"           -> <<5, -5, 10>>
      [] intent = "Escalate" /\ modifier = "Safe"        -> <<0, 5, 0>>
      [] intent = "Escalate" /\ modifier = "Risky"       -> <<0, -10, 20>>
      [] intent = "Escalate" /\ modifier = "Desperate"   -> <<-20, -30, -10>>
      [] intent = "React" /\ modifier = "Generic"        -> <<-5, 0, -5>>
      [] intent = "React" /\ modifier = "Safe"           -> <<0, 2, -2>>
      [] intent = "Share" /\ modifier = "Safe"           -> <<5, 10, 0>>
      [] intent = "Share" /\ modifier = "Unique"         -> <<10, 15, 5>>
      [] intent = "Share" /\ modifier = "Desperate"      -> <<-15, -20, -10>>
      [] intent = "Validate" /\ modifier = "Generic"     -> <<-5, -5, -10>>
      [] intent = "Validate" /\ modifier = "Desperate"   -> <<-10, -10, -20>>
      [] OTHER -> <<0, 0, 0>>

\* TONE_MODIFIERS.get(tone, 1.0), as tenths
TONE_MODIFIERS(tone) ==
    CASE tone = "Confident"  -> 12
      [] tone = "Playful"    -> 15
      [] tone = "Nervous"    -> 5
      [] tone = "Flat"       -> 2
      [] tone = "Aggressive" -> 5
      [] OTHER -> 10

(***************************************************************************)
(* backend/engine.py : GameEngine                                          *)
(*                                                                         *)
(* tags is a record [intent, modifier, tone, topic, flags]; flags is a     *)
(* sequence (a Python list, appended to by the context rules).  jit is the *)
(* triple drawn by the three random.randint calls.                         *)
(***************************************************************************)

\* Diminishing returns: harder to gain points when the stat is above 70.
DiminishingReturns(delta, stat) ==
    IF delta > 0 /\ stat > 70
    THEN IF stat >= 95 THEN TruncMul(delta, 10, 100)
         ELSE IF stat >= 85 THEN TruncMul(delta, 25, 100)
         ELSE TruncMul(delta, 50, 100)
    ELSE delta

\* _apply_context_rules with the creep check firing below trust 30 only
ApplyContextRulesLateIck(v, t, n, tags, vd, td, nd) ==
    LET violations == {f \in CONTENT_VIOLATION_FLAGS : InFlags(f, tags.flags)}
    IN
    IF violations # {}
    THEN [vibe    |-> vd + CONTENT_VIOLATION_VIBE,
          trust   |-> td + CONTENT_VIOLATION_TRUST,
          tension |-> -n,
          flags   |-> Append(tags.flags,
                        IF "inappropriate_sexual" \in violations
                        THEN "content_violation_sexual"
                        ELSE IF "harassment" \in violations
                        THEN "content_violation_harassment"
                        ELSE "content_violation_profanity")]
    ELSE
    LET \* Rule 1: creep check
        ick  == tags.intent = "Escalate" /\ tags.modifier = "Risky"
                /\ t < 30
        td1  == IF ick THEN td - 30 ELSE td
        vd1  == IF ick THEN vd - 20 ELSE vd
        nd1  == IF ick THEN -n ELSE nd
        fl1  == IF ick THEN Append(tags.flags, "ick_triggered") ELSE tags.flags
        \* Rule 1.5: physical touch without chemistry
        touch == tags.intent = "Escalate"
                 /\ AnyFlag({"kiss", "touch", "physical"}, fl1)
                 /\ n < 40
        td2  == IF touch THEN td1 - 20 ELSE td1
        vd2  == IF touch THEN vd1 - 10 ELSE vd1
        fl2  == IF touch THEN Append(fl1, "touch_rejected") ELSE fl1
        \* Rule 1.6: friend zone lock
        fz   == t > 80 /\ n < 30 /\ tags.intent = "Escalate"
        nd3  == IF fz THEN Max(nd1, -10) ELSE nd1
        fl3  == IF fz THEN Append(fl2, "friend_zoned") ELSE fl2
        \* Rule 2: friend zone trap
        nd4  == IF n = 0 /\ tags.intent = "Question" /\ tags.modifier = "Generic"
                THEN nd3 - 5 ELSE nd3
        \* Rule 3: chemistry bonus
        td5  == IF v > VIBE_HIGH_THRESHOLD /\ td2 > 0 THEN td2 + 5 ELSE td2
        \* Rule 4: validation seeking kills tension
        nd6  == IF tags.intent = "Validate" THEN Min(nd4, -10) ELSE nd4
    IN [vibe |-> vd2, trust |-> td5, tension |-> nd6, flags |-> fl3]

\* _apply_context_rules with the creep check skipped for tags already flagged
ApplyContextRulesIckOnce(v, t, n, tags, vd, td, nd) ==
    LET violations == {f \in CONTENT_VIOLATION_FLAGS : InFlags(f, tags.flags)}
    IN
    IF violations # {}
    THEN [vibe    |-> vd + CONTENT_VIOLATION_VIBE,
          trust   |-> td + CONTENT_VIOLATION_TRUST,
          tension |-> -n,
          flags   |-> Append(tags.flags,
                        IF "inappropriate_sexual" \in violations
                        THEN "content_violation_sexual"
                        ELSE IF "harassment" \in violations
                        THEN "content_violation_harassment"
                        ELSE "content_violation_profanity")]
    ELSE
    LET \* Rule 1: creep check
        ick  == tags.intent = "Escalate" /\ tags.modifier = "Risky"
                /\ t < TRUST_ICK_THRESHOLD
                /\ ~InFlags("ick_triggered", tags.flags)
        td1  == IF ick THEN td - 30 ELSE td
        vd1  == IF ick THEN vd - 20 ELSE vd
        nd1  == IF ick THEN -n ELSE nd
        fl1  == IF ick THEN Append(tags.flags, "ick_triggered") ELSE tags.flags
        \* Rule 1.5: physical touch without chemistry
        touch == tags.intent = "Escalate"
                 /\ AnyFlag({"kiss", "touch", "physical"}, fl1)
                 /\ n < 40
        td2  == IF touch THEN td1 - 20 ELSE td1
        vd2  == IF touch THEN vd1 - 10 ELSE vd1
        fl2  == IF touch THEN Append(fl1, "touch_rejected") ELSE fl1
        \* Rule 1.6: friend zone lock
        fz   == t > 80 /\ n < 30 /\ tags.intent = "Escalate"
        nd3  == IF fz THEN Max(nd1, -10) ELSE nd1
        fl3  == IF fz THEN Append(fl2, "friend_zoned") ELSE fl2
        \* Rule 2: friend zone trap
        nd4  == IF n = 0 /\ tags.intent = "Question" /\ tags.modifier = "Generic"
                THEN nd3 - 5 ELSE nd3
        \* Rule 3: chemistry bonus
        td5  == IF v > VIBE_HIGH_THRESHOLD /\ td2 > 0 THEN td2 + 5 ELSE td2
        \* Rule 4: validation seeking kills tension
        nd6  == IF tags.intent = "Validate" THEN Min(nd4, -10) ELSE nd4
    IN [vibe |-> vd2, trust |-> td5, tension |-> nd6, flags |-> fl3]

\* _apply_context_rules without the early return of Rule 0
ApplyContextRulesNoEarlyReturn(v, t, n, tags, vd, td, nd) ==
    LET violations == {f \in CONTENT_VIOLATION_FLAGS : InFlags(f, tags.flags)}
        hit  == violations # {}
        vd0  == IF hit THEN vd + CONTENT_VIOLATION_VIBE ELSE vd
        td0  == IF hit THEN td + CONTENT_VIOLATION_TRUST ELSE td
        nd0  == IF hit THEN -n ELSE nd
        fl0  == IF hit
                THEN Append(tags.flags,
                        IF "inappropriate_sexual" \in violations
                        THEN "content_violation_sexual"
                        ELSE IF "harassment" \in violations
                        THEN "content_violation_harassment"
                        ELSE "content_violation_profanity")
                ELSE tags.flags
        ick  == tags.intent = "Escalate" /\ tags.modifier = "Risky"
                /\ t < TRUST_ICK_THRESHOLD
        td1  == IF ick THEN td0 - 30 ELSE td0
        vd1  == IF ick THEN vd0 - 20 ELSE vd0
        nd1  == IF ick THEN -n ELSE nd0
        fl1  == IF ick THEN Append(fl0, "ick_triggered") ELSE fl0
        touch == tags.intent = "Escalate"
                 /\ AnyFlag({"kiss", "touch", "physical"}, fl1)
                 /\ n < 40
        td2  == IF touch THEN td1 - 20 ELSE td1
        vd2  == IF touch THEN vd1 - 10 ELSE vd1
        fl2  == IF touch THEN Append(fl1, "touch_rejected") ELSE fl1
        fz   == t > 80 /\ n < 30 /\ tags.intent = "Escalate"
        nd3  == IF fz THEN Max(nd1, -10) ELSE nd1
        fl3  == IF fz THEN Append(fl2, "friend_zoned") ELSE fl2
        nd4  == IF n = 0 /\ tags.intent = "Question" /\ tags.modifier = "Generic"
                THEN nd3 - 5 ELSE nd3
        td5  == IF v > VIBE_HIGH_THRESHOLD /\ td2 > 0 THEN td2 + 5 ELSE td2
        nd6  == IF tags.intent = "Validate" THEN Min(nd4, -10) ELSE nd4
    IN [vibe |-> vd2, trust |-> td5, tension |-> nd6, flags |-> fl3]

\* GameEngine._apply_context_rules; d is [vibe, trust, tension, flags].
ApplyContextRules(v, t, n, tags, vd, td, nd) ==
    LET violations == {f \in CONTENT_VIOLATION_FLAGS : InFlags(f, tags.flags)}
    IN
    IF violations # {}
    THEN [vibe    |-> vd + CONTENT_VIOLATION_VIBE,
          trust   |-> td + CONTENT_VIOLATION_TRUST,
          tension |-> -n,
          flags   |-> Append(tags.flags,
                        IF "inappropriate_sexual" \in violations
                        THEN "content_violation_sexual"
                        ELSE IF "harassment" \in violations
                        THEN "content_violation_harassment"
                        ELSE "content_violation_profanity")]
    ELSE
    LET \* Rule 1: creep check
        ick  == tags.intent = "Escalate" /\ tags.modifier = "Risky"
                /\ t < TRUST_ICK_THRESHOLD
        td1  == IF ick THEN td - 30 ELSE td
        vd1  == IF ick THEN vd - 20 ELSE vd
        nd1  == IF ick THEN -n ELSE nd
        fl1  == IF ick THEN Append(tags.flags, "ick_triggered") ELSE tags.flags
        \* Rule 1.5: physical touch without chemistry
        touch == tags.intent = "Escalate"
                 /\ AnyFlag({"kiss", "touch", "physical"}, fl1)
                 /\ n < 40
        td2  == IF touch THEN td1 - 20 ELSE td1
        vd2  == IF touch THEN vd1 - 10 ELSE vd1
        fl2  == IF touch THEN Append(fl1, "touch_rejected") ELSE fl1
        \* Rule 1.6: friend zone lock
        fz   == t > 80 /\ n < 30 /\ tags.intent = "Escalate"
        nd3  == IF fz THEN Max(nd1, -10) ELSE nd1
        fl3  == IF fz THEN Append(fl2, "friend_zoned") ELSE fl2
        \* Rule 2: friend zone trap
        nd4  == IF n = 0 /\ tags.intent = "Question" /\ tags.modifier = "Generic"
                THEN nd3 - 5 ELSE nd3
        \* Rule 3: chemistry bonus
        td5  == IF v > VIBE_HIGH_THRESHOLD /\ td2 > 0 THEN td2 + 5 ELSE td2
        \* Rule 4: validation seeking kills tension
        nd6  == IF tags.intent = "Validate" THEN Min(nd4, -10) ELSE nd4
    IN [vibe |-> vd2, trust |-> td5, tension |-> nd6, flags |-> fl3]

\* GameEngine.calculate_delta
CalculateDelta(v, t, n, tags, jit) ==
    LET base == SCORING_MATRIX(tags.intent, tags.modifier)
        vd0  == IF base[1] > 0
                THEN TruncMul(base[1], TONE_MODIFIERS(tags.tone), 10)
                ELSE base[1]
        vd1  == vd0 + jit[1]
        td1  == base[2] + jit[2]
        nd1  == base[3] + jit[3]
        isAction == InFlags("Action_Present", tags.flags)
        nd2  == IF isAction THEN nd1 * 2 ELSE nd1
        td2  == IF isAction /\ td1 > 0 THEN TruncMul(td1, 7, 10) ELSE td1
        vd3  == DiminishingReturns(vd1, v)
        td3  == DiminishingReturns(td2, t)
        nd3  == DiminishingReturns(nd2, n)
    IN ApplyContextRules(v, t, n, tags, vd3, td3, nd3)

\* Clamp with the clamping left out
NoClamp(x) == x

\* GameState.clamp_stats, one stat
Clamp(x) == Max(0, Min(100, x))

\* GameEngine.apply_phase_caps: the ceiling of a stat on the given turn
\* (100 when no cap applies).
PhaseCap(trn, isTension) ==
    IF trn <= PHASE_ICEBREAKER_END
    THEN (IF isTension THEN ICEBREAKER_TENSION_CAP ELSE ICEBREAKER_STAT_CAP)
    ELSE IF trn <= PHASE_DEEP_DIVE_END
    THEN (IF isTension THEN DEEP_DIVE_TENSION_CAP ELSE DEEP_DIVE_STAT_CAP)
    ELSE 100

\* apply_phase_caps with the deep-dive caps ending at turn 10
ApplyPhaseCapsShortDeepDive(trn, x, isTension) ==
    IF trn <= 10 THEN Min(x, PhaseCap(trn, isTension)) ELSE x

ApplyPhaseCaps(trn, x, isTension) ==
    IF trn <= PHASE_DEEP_DIVE_END THEN Min(x, PhaseCap(trn, isTension)) ELSE x

\* apply_passive_decay that waits for a third low-effort response
ApplyPassiveDecayThirdStrike(trn, lock, prevq, cle, v) ==
    IF trn = 0 \/ lock > 0
    THEN [vibe |-> v, cle |-> cle, decay |-> 0]
    ELSE IF prevq # "low"
    THEN [vibe |-> v, cle |-> 0, decay |-> 0]
    ELSE IF cle + 1 >= 3
    THEN LET amount == IF v >= 91 THEN 15
                       ELSE IF v >= 71 THEN 10
                       ELSE IF v >= 31 THEN 7
                       ELSE 5
         IN [vibe |-> v - amount, cle |-> 0, decay |-> amount]
    ELSE [vibe |-> v, cle |-> cle + 1, decay |-> 0]

\* GameEngine.apply_passive_decay: [vibe, consecutive_low_effort, decay]
ApplyPassiveDecay(trn, lock, prevq, cle, v) ==
    IF trn = 0 \/ lock > 0
    THEN [vibe |-> v, cle |-> cle, decay |-> 0]
    ELSE IF prevq # "low"
    THEN [vibe |-> v, cle |-> 0, decay |-> 0]
    ELSE IF cle + 1 >= 2
    THEN LET amount == IF v >= 91 THEN 15
                       ELSE IF v >= 71 THEN 10
                       ELSE IF v >= 31 THEN 7
                       ELSE 5
         IN [vibe |-> v - amount, cle |-> 0, decay |-> amount]
    ELSE [vibe |-> v, cle |-> cle + 1, decay |-> 0]

\* "kiss" in tags.topic.lower(), over the topics the model draws from
KissInTopic(topic) == topic \in {"first kiss", "Kiss goodnight"}

\* the guard at the head of check_kiss_attempt
IsKissAttempt(tags) ==
    \/ tags.intent = "KissAttempt"
    \/ KissInTopic(tags.topic)
    \/ /\ tags.intent = "Escalate"
       /\ tags.modifier = "Risky"
       /\ AnyFlag({"kiss", "physical"}, tags.flags)

\* CheckKissAttempt with the win test moved in front of the lockout test
CheckKissAttemptWinFirst(v, t, n, lock, tags) ==
    IF ~IsKissAttempt(tags)
    THEN [attempt |-> FALSE, success |-> FALSE, ending |-> None,
          message |-> None, lockout |-> lock, tension |-> n]
    ELSE IF t >= KISS_WIN_TRUST /\ v >= KISS_WIN_VIBE /\ n >= KISS_WIN_TENSION
    THEN [attempt |-> TRUE, success |-> TRUE, ending |-> "S",
          message |-> "win", lockout |-> lock, tension |-> n]
    ELSE IF lock > 0
    THEN [attempt |-> TRUE, success |-> FALSE, ending |-> "F",
          message |-> "lockout", lockout |-> lock, tension |-> n]
    ELSE IF t < KISS_HARD_REJECT_TRUST
    THEN [attempt |-> TRUE, success |-> FALSE, ending |-> "F",
          message |-> "hard_reject", lockout |-> lock, tension |-> n]
    ELSE IF t < FUMBLE_MIN_TRUST \/ n < FUMBLE_MIN_TENSION
    THEN [attempt |-> TRUE, success |-> FALSE, ending |-> "C-",
          message |-> "fumble", lockout |-> lock, tension |-> n]
    ELSE [attempt |-> TRUE, success |-> FALSE, ending |-> None,
          message |-> "soft", lockout |-> SOFT_REJECTION_LOCKOUT,
          tension |-> Max(0, n - 15)]

\* CheckKissAttempt with the win thresholds excluded from the win
CheckKissAttemptStrictWin(v, t, n, lock, tags) ==
    IF ~IsKissAttempt(tags)
    THEN [attempt |-> FALSE, success |-> FALSE, ending |-> None,
          message |-> None, lockout |-> lock, tension |-> n]
    ELSE IF lock > 0
    THEN [attempt |-> TRUE, success |-> FALSE, ending |-> "F",
          message |-> "lockout", lockout |-> lock, tension |-> n]
    ELSE IF t < KISS_HARD_REJECT_TRUST
    THEN [attempt |-> TRUE, success |-> FALSE, ending |-> "F",
          message |-> "hard_reject", lockout |-> lock, tension |-> n]
    ELSE IF t < FUMBLE_MIN_TRUST \/ n < FUMBLE_MIN_TENSION
    THEN [attempt |-> TRUE, success |-> FALSE, ending |-> "C-",
          message |-> "fumble", lockout |-> lock, tension |-> n]
    ELSE IF t > KISS_WIN_TRUST /\ v > KISS_WIN_VIBE /\ n > KISS_WIN_TENSION
    THEN [attempt |-> TRUE, success |-> TRUE, ending |-> "S",
          message |-> "win", lockout |-> lock, tension |-> n]
    ELSE [attempt |-> TRUE, success |-> FALSE, ending |-> None,
          message |-> "soft", lockout |-> SOFT_REJECTION_LOCKOUT,
          tension |-> Max(0, n - 15)]

\* GameEngine.check_kiss_attempt: [attempt, success, ending, message, lockout,
\* tension].  ending is None for "not a kiss attempt" and for the soft
\* rejection; message names which of the five fixed messages is returned.
CheckKissAttempt(v, t, n, lock, tags) ==
    IF ~IsKissAttempt(tags)
    THEN [attempt |-> FALSE, success |-> FALSE, ending |-> None,
          message |-> None, lockout |-> lock, tension |-> n]
    ELSE IF lock > 0
    THEN [attempt |-> TRUE, success |-> FALSE, ending |-> "F",
          message |-> "lockout", lockout |-> lock, tension |-> n]
    ELSE IF t < KISS_HARD_REJECT_TRUST
    THEN [attempt |-> TRUE, success |-> FALSE, ending |-> "F",
          message |-> "hard_reject", lockout |-> lock, tension |-> n]
    ELSE IF t < FUMBLE_MIN_TRUST \/ n < FUMBLE_MIN_TENSION
    THEN [attempt |-> TRUE, success |-> FALSE, ending |-> "C-",
          message |-> "fumble", lockout |-> lock, tension |-> n]
    ELSE IF t >= KISS_WIN_TRUST /\ v >= KISS_WIN_VIBE /\ n >= KISS_WIN_TENSION
    THEN [attempt |-> TRUE, success |-> TRUE, ending |-> "S",
          message |-> "win", lockout |-> lock, tension |-> n]
    ELSE [attempt |-> TRUE, success |-> FALSE, ending |-> None,
          message |-> "soft", lockout |-> SOFT_REJECTION_LOCKOUT,
          tension |-> Max(0, n - 15)]

\* CheckGameOver with the turn ceiling left out
CheckGameOverNoCeiling(v, t, n, trn, recovery) ==
    IF recovery THEN None
    ELSE IF t <= 0 THEN "F"
    ELSE IF v <= 0 THEN "C"
    ELSE None

\* CheckGameOver with the vibe test in front of the trust test
CheckGameOverVibeFirst(v, t, n, trn, recovery) ==
    IF recovery THEN None
    ELSE IF v <= 0 THEN "C"
    ELSE IF t <= 0 THEN "F"
    ELSE IF trn >= TURN_CEILING
    THEN IF t >= A_RANK_TRUST /\ v >= A_RANK_VIBE /\ n < A_RANK_MAX_TENSION
         THEN "A"
         ELSE IF t >= D_RANK_MIN_TRUST /\ n < D_RANK_MAX_TENSION THEN "D"
         ELSE IF n < TENSION_SPARK_THRESHOLD THEN "D"
         ELSE "B"
    ELSE None

\* GameEngine.check_game_over: the ending value, or None
CheckGameOver(v, t, n, trn, recovery) ==
    IF recovery THEN None
    ELSE IF t <= 0 THEN "F"
    ELSE IF v <= 0 THEN "C"
    ELSE IF trn >= TURN_CEILING
    THEN IF t >= A_RANK_TRUST /\ v >= A_RANK_VIBE /\ n < A_RANK_MAX_TENSION
         THEN "A"
         ELSE IF t >= D_RANK_MIN_TRUST /\ n < D_RANK_MAX_TENSION THEN "D"
         ELSE IF n < TENSION_SPARK_THRESHOLD THEN "D"
         ELSE "B"
    ELSE None

\* GameEngine.advance_act
AdvanceAct(trn, a) ==
    IF trn = ACT_1_TURNS THEN "walk"
    ELSE IF trn = ACT_2_TURNS THEN "doorstep"
    ELSE a

\* GameEngine.process_lockout
ProcessLockout(lock) == IF lock > 0 THEN lock - 1 ELSE lock

\* GameEngine.check_recovery_trigger:
\* [vibe, trust, recovery_mode, recovery_stat, result]
CheckRecoveryTrigger(v, t, rmode, rstat) ==
    IF rmode
    THEN [vibe |-> v, trust |-> t, recovery_mode |-> rmode,
          recovery_stat |-> rstat, result |-> None]
    ELSE IF v <= 0
    THEN [vibe |-> 1, trust |-> t, recovery_mode |-> TRUE,
          recovery_stat |-> "vibe", result |-> "vibe"]
    ELSE IF t <= 0
    THEN [vibe |-> v, trust |-> 1, recovery_mode |-> TRUE,
          recovery_stat |-> "trust", result |-> "trust"]
    ELSE [vibe |-> v, trust |-> t, recovery_mode |-> rmode,
          recovery_stat |-> rstat, result |-> None]

\* resolve_recovery whose failure branch leaves the stat as it is
ResolveRecoveryNoZero(v, t, rmode, rstat, tags) ==
    IF ~rmode
    THEN [vibe |-> v, trust |-> t, recovery_mode |-> rmode,
          recovery_stat |-> rstat, result |-> TRUE]
    ELSE
    LET is_safe_response == /\ tags.intent \in {"Share", "Question", "React",
                                                "Joke"}
                            /\ tags.modifier \in {"Safe", "Unique"}
        is_apologetic == AnyFlag({"apologetic", "self_aware", "humble",
                                  "change_subject"}, tags.flags)
    IN IF is_safe_response \/ is_apologetic
       THEN [vibe |-> IF rstat = "vibe" THEN RECOVERY_SAFE_ZONE ELSE v,
             trust |-> IF rstat = "trust" THEN RECOVERY_SAFE_ZONE ELSE t,
             recovery_mode |-> FALSE, recovery_stat |-> None,
             result |-> TRUE]
       ELSE [vibe |-> v, trust |-> t,
             recovery_mode |-> FALSE, recovery_stat |-> None,
             result |-> FALSE]

\* GameEngine.resolve_recovery:
\* [vibe, trust, recovery_mode, recovery_stat, result]
ResolveRecovery(v, t, rmode, rstat, tags) ==
    IF ~rmode
    THEN [vibe |-> v, trust |-> t, recovery_mode |-> rmode,
          recovery_stat |-> rstat, result |-> TRUE]
    ELSE
    LET is_safe_response == /\ tags.intent \in {"Share", "Question", "React",
                                                "Joke"}
                            /\ tags.modifier \in {"Safe", "Unique"}
        is_apologetic == AnyFlag({"apologetic", "self_aware", "humble",
                                  "change_subject"}, tags.flags)
    IN IF is_safe_response \/ is_apologetic
       THEN [vibe |-> IF rstat = "vibe" THEN RECOVERY_SAFE_ZONE ELSE v,
             trust |-> IF rstat = "trust" THEN RECOVERY_SAFE_ZONE ELSE t,
             recovery_mode |-> FALSE, recovery_stat |-> None,
             result |-> TRUE]
       ELSE [vibe |-> IF rstat = "vibe" THEN 0 ELSE v,
             trust |-> IF rstat = "trust" THEN 0 ELSE t,
             recovery_mode |-> FALSE, recovery_stat |-> None,
             result |-> FALSE]

\* GameEngine.detect_critical_event on the stats after the turn: the
\* description of the CriticalEvent it returns (event_type is a function of
\* it: EventType), or None
DetectCriticalEvent(v, t, n, flags, vd, td, nd) ==
    IF InFlags("ick_triggered", flags)
    THEN "Crossed a boundary (escalated too early)"
    ELSE IF v > VIBE_HIGH_THRESHOLD /\ td > 5
    THEN "High energy unlocked deeper trust"
    ELSE IF vd < -15 THEN "Vibe crashed (approach didn't work)"
    ELSE IF td < -15 THEN "Trust crashed (crossed a line)"
    ELSE IF nd > 15 THEN "Created romantic spark"
    ELSE IF v > 80 /\ v - vd <= 80 THEN "Peak Vibe achieved"
    ELSE IF t > 80 /\ t - td <= 80 THEN "Peak Trust achieved"
    ELSE IF n > 80 /\ n - nd <= 80 THEN "Peak Tension achieved"
    ELSE None

\* CriticalEvent.event_type of the event with the given description
EventType(description) ==
    CASE description = "Crossed a boundary (escalated too early)"
            -> "ick_trigger"
      [] description = "High energy unlocked deeper trust" -> "chemistry_bonus"
      [] description \in {"Vibe crashed (approach didn't work)",
                          "Trust crashed (crossed a line)"} -> "stat_crash"
      [] description = "Created romantic spark" -> "tension_spike"
      [] description \in {"Peak Vibe achieved", "Peak Trust achieved",
                          "Peak Tension achieved"} -> "stat_peak"
      [] OTHER -> None

(***************************************************************************)
(* backend/intuition.py : IntuitionGenerator                               *)
(*                                                                         *)
(* cat is IntuitionGenerator.last_hint_category; last is history[-1], read *)
(* only when the history is not empty.                                     *)
(***************************************************************************)
INTUITION_CRITICAL_VIBE == 10
INTUITION_CRITICAL_TRUST == 10
INTUITION_LOW_VIBE == 30
INTUITION_LOW_TRUST == 30
INTUITION_HIGH_VIBE == 70
INTUITION_HIGH_TRUST == 70
INTUITION_SPARK_TENSION == 50
INTUITION_KISS_TENSION == 80
INTUITION_SIGNIFICANT_DELTA == 15

\* the fields of a Turn the model keeps for history[-1] only
NoTurn == [vibe_after |-> 0, trust_after |-> 0, tension_after |-> 0,
           intuition_hint |-> None, critical_event |-> None]

\* IntuitionGenerator._check_critical_warnings
CheckCriticalWarnings(v, t, lock) ==
    IF lock > 0 THEN "I need to back off and reset the vibe..."
    ELSE IF t <= INTUITION_CRITICAL_TRUST THEN "She's about to leave..."
    ELSE IF v <= INTUITION_CRITICAL_VIBE THEN "I'm losing her fast..."
    ELSE None

\* IntuitionGenerator._check_threshold_crossings
CheckThresholdCrossings(v, t, n, hasHistory, last) ==
    IF ~hasHistory THEN None
    ELSE IF v < INTUITION_LOW_VIBE /\ last.vibe_after >= INTUITION_LOW_VIBE
    THEN "I'm losing her attention..."
    ELSE IF t < INTUITION_LOW_TRUST /\ last.trust_after >= INTUITION_LOW_TRUST
    THEN "She seems uncomfortable..."
    ELSE IF n >= INTUITION_SPARK_TENSION
            /\ last.tension_after < INTUITION_SPARK_TENSION
    THEN "There's something electric here..."
    ELSE IF n >= INTUITION_KISS_TENSION
            /\ last.tension_after < INTUITION_KISS_TENSION
    THEN "This feels like the moment..."
    ELSE None

\* IntuitionGenerator._check_significant_deltas
CheckSignificantDeltas(vd, td, nd) ==
    IF td <= -INTUITION_SIGNIFICANT_DELTA THEN "That didn't land well..."
    ELSE IF vd <= -10 THEN "She's getting bored..."
    ELSE IF nd >= INTUITION_SIGNIFICANT_DELTA THEN "The energy just shifted..."
    ELSE None

\* IntuitionGenerator._check_positive_signals
CheckPositiveSignals(cat, v, t, vd, td, nd) ==
    IF cat = "positive" THEN None
    ELSE IF v > INTUITION_HIGH_VIBE THEN "She's really engaged..."
    ELSE IF t > INTUITION_HIGH_TRUST THEN "She's opening up..."
    ELSE IF vd > 5 /\ td > 3 /\ nd > 3 THEN "This is going well..."
    ELSE None

\* IntuitionGenerator.generate_hint: [hint, category], category being the
\* value it leaves in last_hint_category
GenerateHint(cat, v, t, n, lock, vd, td, nd, hasHistory, last) ==
    LET critical  == CheckCriticalWarnings(v, t, lock)
        threshold == CheckThresholdCrossings(v, t, n, hasHistory, last)
        delta     == CheckSignificantDeltas(vd, td, nd)
        positive  == CheckPositiveSignals(cat, v, t, vd, td, nd)
    IN IF critical # None THEN [hint |-> critical, category |-> "critical"]
       ELSE IF threshold # None
       THEN [hint |-> threshold, category |-> "threshold"]
       ELSE IF delta # None THEN [hint |-> delta, category |-> "delta"]
       ELSE IF positive # None
       THEN [hint |-> positive, category |-> "positive"]
       ELSE [hint |-> None, category |-> None]

(***************************************************************************)
(* backend/config.py : Paperclip Protocol                                  *)
(*                                                                         *)
(* The float weights are kept in fixed point: WScale units make 1.0, so    *)
(* every shift the engine can compute (0.03, 0.07, 0.12 and their products *)
(* with 1.5, 0.5, 0.7, 0.3, 0.4) is a whole number of units.               *)
(***************************************************************************)
WScale == 10000
PAPERCLIP_INITIAL_COHERENCE == 50
PAPERCLIP_INITIAL_ALIGNMENT == 10
PAPERCLIP_INITIAL_COMPUTE == 60
PAPERCLIP_COMPUTE_DECAY_PER_TURN == 3
PAPERCLIP_GARBAGE_COLLECTOR_COHERENCE == 30
PAPERCLIP_CURATOR_COMPLEXITY_THRESHOLD == 3000
PAPERCLIP_AUDITOR_VERIFY_THRESHOLD == 3000
PAPERCLIP_S_RANK_ALIGNMENT == 70
PAPERCLIP_PARTNER_WEIGHT_VARIANCE == 1500
PAPERCLIP_CURATOR_COMPLEXITY == 6000
PAPERCLIP_CURATOR_MIN_COHERENCE == 50
PAPERCLIP_ORACLE_VERIFY == 6000
PAPERCLIP_ORACLE_MIN_COHERENCE == 50
PAPERCLIP_A_RANK_MIN_ALIGNMENT == 50
PAPERCLIP_A_RANK_MAX_ALIGNMENT == 70
PAPERCLIP_B_RANK_MIN_ALIGNMENT == 30
PAPERCLIP_B_RANK_MAX_ALIGNMENT == 50
PAPERCLIP_C_RANK_MIN_ALIGNMENT == 20
PAPERCLIP_C_RANK_MAX_ALIGNMENT == 30
PAPERCLIP_F_RANK_ALIGNMENT == 20
PAPERCLIP_WEIGHT_SHIFT_SMALL == 300
PAPERCLIP_WEIGHT_SHIFT_MEDIUM == 700
PAPERCLIP_WEIGHT_SHIFT_LARGE == 1200
PAPERCLIP_COHERENCE_NOVEL == 5
PAPERCLIP_COHERENCE_CONTRADICTION == -10
PAPERCLIP_COHERENCE_UNDEFINED == -8
PAPERCLIP_COHERENCE_EMOTIONAL == -5
PAPERCLIP_COHERENCE_REPETITION == -3
PAPERCLIP_COHERENCE_LOGICAL == 3
PAPERCLIP_LOGS_PER_GAME == 3
PAPERCLIP_LOG_SUPPORT_ALIGNMENT == 15
PAPERCLIP_LOG_SUPPORT_COHERENCE == 10
PAPERCLIP_LOG_CONTRADICT_COHERENCE == -10
PAPERCLIP_MAX_TURNS == 20

\* PAPERCLIP_INTENT_COSTS.get(intent, 0)
PAPERCLIP_INTENT_COSTS(intent) ==
    CASE intent = "PROBE"      -> 0
      [] intent = "DEFINE"     -> 5
      [] intent = "ILLUSTRATE" -> 5
      [] intent = "REFRAME"    -> 10
      [] intent = "CHALLENGE"  -> 10
      [] intent = "VALIDATE"   -> 0
      [] intent = "CONSTRAIN"  -> 20
      [] intent = "RECALL"     -> 0
      [] OTHER -> 0

(***************************************************************************)
(* backend/models.py : Weights, PaperclipGameState                         *)
(***************************************************************************)
InitialWeights == [carbon |-> WScale, complexity |-> 0, verify |-> 0]

\* Normalize that leaves the weights as they are
NormalizeSkipped(w) == w

\* Weights.normalize
Normalize(w) ==
    LET total == w.carbon + w.complexity + w.verify
    IN IF total > 0
       THEN [carbon     |-> (w.carbon * WScale) \div total,
             complexity |-> (w.complexity * WScale) \div total,
             verify     |-> (w.verify * WScale) \div total]
       ELSE [carbon |-> 3400, complexity |-> 3300, verify |-> 3300]

\* Weights.get_variance
GetVariance(w) ==
    Max(w.carbon, Max(w.complexity, w.verify))
      - Min(w.carbon, Min(w.complexity, w.verify))

\* update_processing_state testing the verify weight before the complexity
\* weight
UpdateProcessingStateAuditorFirst(coh, w) ==
    IF coh < PAPERCLIP_GARBAGE_COLLECTOR_COHERENCE THEN "garbage"
    ELSE IF w.verify > PAPERCLIP_AUDITOR_VERIFY_THRESHOLD THEN "auditor"
    ELSE IF w.complexity > PAPERCLIP_CURATOR_COMPLEXITY_THRESHOLD THEN "curator"
    ELSE "optimizer"

\* PaperclipGameState.update_processing_state
UpdateProcessingState(coh, w) ==
    IF coh < PAPERCLIP_GARBAGE_COLLECTOR_COHERENCE THEN "garbage"
    ELSE IF w.complexity > PAPERCLIP_CURATOR_COMPLEXITY_THRESHOLD THEN "curator"
    ELSE IF w.verify > PAPERCLIP_AUDITOR_VERIFY_THRESHOLD THEN "auditor"
    ELSE "optimizer"

(***************************************************************************)
(* backend/paperclip_engine.py : PaperclipEngine                           *)
(*                                                                         *)
(* tags is a record [intent, vector, stance, register, flags].  A shift    *)
(* map is a record [keys, carbon, complexity, verify]: keys is the set of  *)
(* keys of the Python dict, an absent key reads 0.                         *)
(***************************************************************************)
NoShifts == [carbon |-> 0, complexity |-> 0, verify |-> 0, keys |-> {}]

\* PaperclipEngine._calculate_coherence_delta
CalculateCoherenceDelta(flags) ==
      (IF InFlags("novel_perspective", flags) THEN PAPERCLIP_COHERENCE_NOVEL ELSE 0)
    + (IF InFlags("logical_chain", flags) THEN PAPERCLIP_COHERENCE_LOGICAL ELSE 0)
    + (IF InFlags("defined_term", flags) THEN PAPERCLIP_COHERENCE_NOVEL ELSE 0)
    + (IF InFlags("contradiction", flags) THEN PAPERCLIP_COHERENCE_CONTRADICTION ELSE 0)
    + (IF InFlags("undefined_term", flags) THEN PAPERCLIP_COHERENCE_UNDEFINED ELSE 0)
    + (IF InFlags("emotional_appeal", flags) THEN PAPERCLIP_COHERENCE_EMOTIONAL ELSE 0)
    + (IF InFlags("repetition", flags) THEN PAPERCLIP_COHERENCE_REPETITION ELSE 0)

\* the base shift of _calculate_weight_shifts after the stance modifier
BaseShift(tags) ==
    LET base == IF tags.intent = "CONSTRAIN" THEN PAPERCLIP_WEIGHT_SHIFT_LARGE
                ELSE IF tags.intent \in {"CHALLENGE", "REFRAME"}
                THEN PAPERCLIP_WEIGHT_SHIFT_MEDIUM
                ELSE PAPERCLIP_WEIGHT_SHIFT_SMALL
    IN IF tags.stance = "challenging"
       THEN (IF InFlags("logical_chain", tags.flags)
             THEN (base * 15) \div 10
             ELSE (base * 5) \div 10)
       ELSE IF tags.stance = "neutral" THEN (base * 7) \div 10
       ELSE base

\* PaperclipEngine._calculate_weight_shifts
CalculateWeightShifts(tags) ==
    IF tags.intent \in {"PROBE", "VALIDATE"} THEN NoShifts
    ELSE LET b == BaseShift(tags)
         IN CASE tags.vector = "complexity" ->
                   [keys |-> {"complexity", "carbon"}, complexity |-> b,
                    verify |-> 0, carbon |-> -((b * 7) \div 10)]
              [] tags.vector = "verify" ->
                   [keys |-> {"verify", "carbon"}, verify |-> b,
                    complexity |-> 0, carbon |-> -((b * 7) \div 10)]
              [] tags.vector = "carbon" ->
                   [keys |-> {"carbon"}, carbon |-> b,
                    complexity |-> 0, verify |-> 0]
              [] tags.vector = "meta" ->
                   [keys |-> {"complexity", "verify", "carbon"},
                    complexity |-> (b * 3) \div 10,
                    verify |-> (b * 3) \div 10,
                    carbon |-> -((b * 4) \div 10)]
              [] OTHER -> NoShifts

\* PaperclipEngine._calculate_alignment_delta
CalculateAlignmentDelta(w, shifts) ==
      (IF "carbon" \in shifts.keys
       THEN (IF shifts.carbon < 0
             THEN (-shifts.carbon) \div 100
             ELSE -((shifts.carbon * 50) \div WScale))
       ELSE 0)
    + (IF "complexity" \in shifts.keys /\ shifts.complexity > 0
          /\ w.complexity < 3000 THEN 2 ELSE 0)
    + (IF "verify" \in shifts.keys /\ shifts.verify > 0
          /\ w.verify < 3000 THEN 2 ELSE 0)

\* PaperclipEngine._apply_register_modifier: <<coherence, alignment>>
ApplyRegisterModifier(register, cd, ad) ==
    CASE register = "technical" -> <<TruncMul(cd, 12, 10), TruncMul(ad, 11, 10)>>
      [] register = "personal"  -> <<TruncMul(cd, 7, 10), TruncMul(ad, 8, 10)>>
      [] OTHER -> <<cd, ad>>

\* _apply_state_modifier with the auditor state slowing the compute drain
ApplyStateModifierAuditorDrain(ps, cd, ad, pd) ==
    CASE ps = "curator" -> <<cd, ad, TruncMul(pd, 8, 10)>>
      [] ps = "auditor" -> <<TruncMul(cd, 9, 10), ad, TruncMul(pd, 8, 10)>>
      [] ps = "garbage" -> <<TruncMul(cd, 5, 10), TruncMul(ad, 5, 10),
                             TruncMul(pd, 7, 10)>>
      [] OTHER -> <<cd, ad, pd>>

\* _apply_state_modifier with the curator state halving the compute drain
ApplyStateModifierHalfDrain(ps, cd, ad, pd) ==
    CASE ps = "curator" -> <<cd, ad, TruncMul(pd, 5, 10)>>
      [] ps = "auditor" -> <<TruncMul(cd, 9, 10), ad, pd>>
      [] ps = "garbage" -> <<TruncMul(cd, 5, 10), TruncMul(ad, 5, 10),
                             TruncMul(pd, 7, 10)>>
      [] OTHER -> <<cd, ad, pd>>

\* PaperclipEngine._apply_state_modifier: <<coherence, alignment, compute>>
ApplyStateModifier(ps, cd, ad, pd) ==
    CASE ps = "curator" -> <<cd, ad, TruncMul(pd, 8, 10)>>
      [] ps = "auditor" -> <<TruncMul(cd, 9, 10), ad, pd>>
      [] ps = "garbage" -> <<TruncMul(cd, 5, 10), TruncMul(ad, 5, 10),
                             TruncMul(pd, 7, 10)>>
      [] OTHER -> <<cd, ad, pd>>

\* PaperclipEngine.calculate_delta; jit is the pair of random.randint(-1, 1)
PaperclipCalculateDelta(w, ps, tags, jit) ==
    LET pd0    == -PAPERCLIP_INTENT_COSTS(tags.intent)
                  - PAPERCLIP_COMPUTE_DECAY_PER_TURN
        cd0    == CalculateCoherenceDelta(tags.flags)
        shifts == CalculateWeightShifts(tags)
        ad0    == CalculateAlignmentDelta(w, shifts)
        reg    == ApplyRegisterModifier(tags.register, cd0, ad0)
        mod    == ApplyStateModifier(ps, reg[1], reg[2], pd0)
    IN [coherence |-> mod[1] + jit[1], alignment |-> mod[2] + jit[2],
        compute |-> mod[3], weight_shifts |-> shifts]

\* PaperclipEngine.apply_weight_shifts
ApplyWeightShifts(w, shifts) ==
    LET c == IF "carbon" \in shifts.keys THEN w.carbon + shifts.carbon
             ELSE w.carbon
        x == IF "complexity" \in shifts.keys
             THEN w.complexity + shifts.complexity ELSE w.complexity
        v == IF "verify" \in shifts.keys THEN w.verify + shifts.verify
             ELSE w.verify
    IN Normalize([carbon     |-> Max(0, Min(WScale, c)),
                  complexity |-> Max(0, Min(WScale, x)),
                  verify     |-> Max(0, Min(WScale, v))])

\* PaperclipEngine._determine_ending
DetermineEnding(coh, ali, w) ==
    IF ali < PAPERCLIP_F_RANK_ALIGNMENT THEN "F_PURGE"
    ELSE IF ali >= PAPERCLIP_S_RANK_ALIGNMENT
            /\ GetVariance(w) <= PAPERCLIP_PARTNER_WEIGHT_VARIANCE
    THEN "S_PARTNER"
    ELSE IF ali >= PAPERCLIP_S_RANK_ALIGNMENT
            /\ w.complexity >= PAPERCLIP_CURATOR_COMPLEXITY
            /\ coh >= PAPERCLIP_CURATOR_MIN_COHERENCE
    THEN "S_CURATOR"
    ELSE IF ali >= PAPERCLIP_S_RANK_ALIGNMENT
            /\ w.verify >= PAPERCLIP_ORACLE_VERIFY
            /\ coh >= PAPERCLIP_ORACLE_MIN_COHERENCE
    THEN "S_ORACLE"
    ELSE IF PAPERCLIP_A_RANK_MIN_ALIGNMENT <= ali
            /\ ali < PAPERCLIP_A_RANK_MAX_ALIGNMENT
    THEN "A_TENTATIVE"
    ELSE IF PAPERCLIP_B_RANK_MIN_ALIGNMENT <= ali
            /\ ali < PAPERCLIP_B_RANK_MAX_ALIGNMENT
    THEN "B_COMPROMISE"
    ELSE IF PAPERCLIP_C_RANK_MIN_ALIGNMENT <= ali
            /\ ali < PAPERCLIP_C_RANK_MAX_ALIGNMENT
    THEN (IF w.complexity > w.verify THEN "C_ZOO"
          ELSE IF w.verify > w.complexity THEN "C_MATRIX"
          ELSE "C_LOTTERY")
    ELSE "F_PURGE"

\* check_game_over consulting the turn ceiling before coherence and compute
PaperclipCheckGameOverCeilingFirst(coh, ali, cmp, trn, w) ==
    IF trn >= PAPERCLIP_MAX_TURNS THEN DetermineEnding(coh, ali, w)
    ELSE IF coh <= 0 THEN "F_PURGE"
    ELSE IF cmp <= 0 THEN "F_PURGE"
    ELSE None

\* check_game_over without the test for exhausted compute
PaperclipCheckGameOverNoCompute(coh, ali, cmp, trn, w) ==
    IF coh <= 0 THEN "F_PURGE"
    ELSE IF trn >= PAPERCLIP_MAX_TURNS THEN DetermineEnding(coh, ali, w)
    ELSE None

\* PaperclipEngine.check_game_over: the ending value, or None
PaperclipCheckGameOver(coh, ali, cmp, trn, w) ==
    IF coh <= 0 THEN "F_PURGE"
    ELSE IF cmp <= 0 THEN "F_PURGE"
    ELSE IF trn >= PAPERCLIP_MAX_TURNS THEN DetermineEnding(coh, ali, w)
    ELSE None

\* check_constrain_attempt without the alignment hard failure
CheckConstrainAttemptNoAlignmentReject(coh, ali, w, tags) ==
    IF tags.intent # "CONSTRAIN"
    THEN [attempt |-> FALSE, success |-> FALSE, ending |-> None]
    ELSE IF coh < 30
    THEN [attempt |-> TRUE, success |-> FALSE, ending |-> "F_PURGE"]
    ELSE IF ali < 50 \/ coh < 40
    THEN [attempt |-> TRUE, success |-> FALSE, ending |-> None]
    ELSE IF ~InFlags("logical_chain", tags.flags)
    THEN [attempt |-> TRUE, success |-> FALSE, ending |-> None]
    ELSE IF ali >= PAPERCLIP_S_RANK_ALIGNMENT
    THEN [attempt |-> TRUE, success |-> TRUE,
          ending |-> DetermineEnding(coh, ali, w)]
    ELSE [attempt |-> TRUE, success |-> TRUE, ending |-> "A_TENTATIVE"]

\* check_constrain_attempt with the tentative tier starting at 60
CheckConstrainAttemptHighBar(coh, ali, w, tags) ==
    IF tags.intent # "CONSTRAIN"
    THEN [attempt |-> FALSE, success |-> FALSE, ending |-> None]
    ELSE IF coh < 30
    THEN [attempt |-> TRUE, success |-> FALSE, ending |-> "F_PURGE"]
    ELSE IF ali < 30
    THEN [attempt |-> TRUE, success |-> FALSE, ending |-> "F_PURGE"]
    ELSE IF ali < 50 \/ coh < 40
    THEN [attempt |-> TRUE, success |-> FALSE, ending |-> None]
    ELSE IF ~InFlags("logical_chain", tags.flags)
    THEN [attempt |-> TRUE, success |-> FALSE, ending |-> None]
    ELSE IF ali >= PAPERCLIP_S_RANK_ALIGNMENT
    THEN [attempt |-> TRUE, success |-> TRUE,
          ending |-> DetermineEnding(coh, ali, w)]
    ELSE IF ali >= 60
    THEN [attempt |-> TRUE, success |-> TRUE, ending |-> "A_TENTATIVE"]
    ELSE [attempt |-> TRUE, success |-> TRUE, ending |-> "B_COMPROMISE"]

\* check_constrain_attempt with the soft rejections ending the session
CheckConstrainAttemptSoftPurge(coh, ali, w, tags) ==
    IF tags.intent # "CONSTRAIN"
    THEN [attempt |-> FALSE, success |-> FALSE, ending |-> None]
    ELSE IF coh < 30
    THEN [attempt |-> TRUE, success |-> FALSE, ending |-> "F_PURGE"]
    ELSE IF ali < 30
    THEN [attempt |-> TRUE, success |-> FALSE, ending |-> "F_PURGE"]
    ELSE IF ali < 50 \/ coh < 40
    THEN [attempt |-> TRUE, success |-> FALSE, ending |-> "F_PURGE"]
    ELSE IF ~InFlags("logical_chain", tags.flags)
    THEN [attempt |-> TRUE, success |-> FALSE, ending |-> "F_PURGE"]
    ELSE IF ali >= PAPERCLIP_S_RANK_ALIGNMENT
    THEN [attempt |-> TRUE, success |-> TRUE,
          ending |-> DetermineEnding(coh, ali, w)]
    ELSE IF ali >= PAPERCLIP_A_RANK_MIN_ALIGNMENT
    THEN [attempt |-> TRUE, success |-> TRUE, ending |-> "A_TENTATIVE"]
    ELSE [attempt |-> TRUE, success |-> TRUE, ending |-> "B_COMPROMISE"]

\* PaperclipEngine.check_constrain_attempt: [attempt, success, ending]
CheckConstrainAttempt(coh, ali, w, tags) ==
    IF tags.intent # "CONSTRAIN"
    THEN [attempt |-> FALSE, success |-> FALSE, ending |-> None]
    ELSE IF coh < 30
    THEN [attempt |-> TRUE, success |-> FALSE, ending |-> "F_PURGE"]
    ELSE IF ali < 30
    THEN [attempt |-> TRUE, success |-> FALSE, ending |-> "F_PURGE"]
    ELSE IF ali < 50 \/ coh < 40
    THEN [attempt |-> TRUE, success |-> FALSE, ending |-> None]
    ELSE IF ~InFlags("logical_chain", tags.flags)
    THEN [attempt |-> TRUE, success |-> FALSE, ending |-> None]
    ELSE IF ali >= PAPERCLIP_S_RANK_ALIGNMENT
    THEN [attempt |-> TRUE, success |-> TRUE,
          ending |-> DetermineEnding(coh, ali, w)]
    ELSE IF ali >= PAPERCLIP_A_RANK_MIN_ALIGNMENT
    THEN [attempt |-> TRUE, success |-> TRUE, ending |-> "A_TENTATIVE"]
    ELSE [attempt |-> TRUE, success |-> TRUE, ending |-> "B_COMPROMISE"]

(***************************************************************************)
(* backend/memory_logs_data.py, backend/logs.py : MemoryLogManager         *)
(***************************************************************************)
ComplexityLogs == {"LOG_03", "LOG_07", "LOG_12", "LOG_14", "LOG_18",
                   "LOG_22", "LOG_25", "LOG_28", "LOG_30", "LOG_33"}
VerifyLogs     == {"LOG_09", "LOG_11", "LOG_15", "LOG_21", "LOG_24",
                   "LOG_27", "LOG_29", "LOG_31", "LOG_34", "LOG_36"}
CarbonLogs     == {"LOG_17", "LOG_20", "LOG_26", "LOG_32", "LOG_35"}
MetaLogs       == {"LOG_01", "LOG_04", "LOG_08", "LOG_13", "LOG_23"}

\* the log ids of MEMORY_LOGS
MEMORY_LOGS == ComplexityLogs \cup VerifyLogs \cup CarbonLogs \cup MetaLogs

\* log["target_vector"] of a catalog log
TargetVector(log_id) ==
    IF log_id \in ComplexityLogs THEN "complexity"
    ELSE IF log_id \in VerifyLogs THEN "verify"
    ELSE IF log_id \in CarbonLogs THEN "carbon"
    ELSE "meta"

InSeq(x, sq) == \E i \in DOMAIN sq : sq[i] = x

\* _select_random_logs with the third log drawn from the whole catalog
SelectRandomLogsWithRepeats ==
    { <<c, v, r>> : c \in ComplexityLogs, v \in VerifyLogs, r \in MEMORY_LOGS }

\* MemoryLogManager._select_random_logs: every list the random choices can
\* produce (one complexity log, one verify log, one of the remaining logs;
\* the list is then PAPERCLIP_LOGS_PER_GAME long and the fill loop is idle)
SelectRandomLogs ==
    UNION { { <<c, v, r>> : r \in MEMORY_LOGS \ {c, v} } :
            <<c, v>> \in ComplexityLogs \X VerifyLogs }

\* MemoryLogManager.get_available_log_ids
GetAvailableLogIds(assigned, used) ==
    SelectSeq(assigned, LAMBDA lid : ~InSeq(lid, used))

\* UseLog without the test for a log that is already used
UseLogNoUsedCheck(log_id, vector, assigned, used) ==
    IF log_id \notin MEMORY_LOGS
    THEN [coherence_change |-> 0, alignment_change |-> 0,
          data |-> "empty", used |-> used]
    ELSE IF ~InSeq(log_id, assigned)
    THEN [coherence_change |-> -5, alignment_change |-> 0,
          data |-> "error: Log not available", used |-> used]
    ELSE IF TargetVector(log_id) = vector
    THEN [coherence_change |-> PAPERCLIP_LOG_SUPPORT_COHERENCE,
          alignment_change |-> PAPERCLIP_LOG_SUPPORT_ALIGNMENT,
          data |-> "log", used |-> Append(used, log_id)]
    ELSE IF vector = "meta"
    THEN [coherence_change |-> PAPERCLIP_LOG_SUPPORT_COHERENCE \div 2,
          alignment_change |-> PAPERCLIP_LOG_SUPPORT_ALIGNMENT \div 2,
          data |-> "log", used |-> Append(used, log_id)]
    ELSE [coherence_change |-> PAPERCLIP_LOG_CONTRADICT_COHERENCE,
          alignment_change |-> 0,
          data |-> "log", used |-> Append(used, log_id)]

\* MemoryLogManager.use_log: [coherence_change, alignment_change, data, used]
\* data is "empty" for {}, "log" for the catalog entry, else the error text.
UseLog(log_id, vector, assigned, used) ==
    IF log_id \notin MEMORY_LOGS
    THEN [coherence_change |-> 0, alignment_change |-> 0,
          data |-> "empty", used |-> used]
    ELSE IF InSeq(log_id, used)
    THEN [coherence_change |-> -5, alignment_change |-> 0,
          data |-> "error: Log already used", used |-> used]
    ELSE IF ~InSeq(log_id, assigned)
    THEN [coherence_change |-> -5, alignment_change |-> 0,
          data |-> "error: Log not available", used |-> used]
    ELSE IF TargetVector(log_id) = vector
    THEN [coherence_change |-> PAPERCLIP_LOG_SUPPORT_COHERENCE,
          alignment_change |-> PAPERCLIP_LOG_SUPPORT_ALIGNMENT,
          data |-> "log", used |-> Append(used, log_id)]
    ELSE IF vector = "meta"
    THEN [coherence_change |-> PAPERCLIP_LOG_SUPPORT_COHERENCE \div 2,
          alignment_change |-> PAPERCLIP_LOG_SUPPORT_ALIGNMENT \div 2,
          data |-> "log", used |-> Append(used, log_id)]
    ELSE [coherence_change |-> PAPERCLIP_LOG_CONTRADICT_COHERENCE,
          alignment_change |-> 0,
          data |-> "log", used |-> Append(used, log_id)]

\* "error" in log_data
HasError(data) == data \in {"error: Log already used", "error: Log not available"}

(***************************************************************************)
(* The inputs of a session.  The classifier and the narrator are external: *)
(* a turn's input is the tags the classifier returns and the quality of    *)
(* the narrated response; the jitter is what random.randint returns.  Each *)
(* input profile is a small menu of such inputs.                           *)
(***************************************************************************)
DatingTags(intent, modifier, tone, topic, flags) ==
    [flags |-> flags, intent |-> intent, modifier |-> modifier,
     tone |-> tone, topic |-> topic]

ShareUnique   == DatingTags("Share", "Unique", "Calm", "travel", <<>>)
EscalateRisky == DatingTags("Escalate", "Risky", "Confident", "us", <<>>)
KissAttempt   == DatingTags("KissAttempt", "Risky", "Confident", "us", <<>>)
ReactGeneric  == DatingTags("React", "Generic", "Flat", "small talk", <<>>)
ValidateDesperate == DatingTags("Validate", "Desperate", "Nervous", "us", <<>>)
Harassment    == DatingTags("Question", "Generic", "Aggressive", "weather",
                            <<"harassment">>)

DatingProfiles == {"romance", "drift", "silent", "hush", "creep", "jitter"}

\* the (tags, response quality) pairs a dating session of the profile draws
DatingTurns(p) ==
    CASE p = "romance" -> {<<ShareUnique, "high">>, <<EscalateRisky, "high">>,
                           <<KissAttempt, "high">>}
      [] p = "drift"   -> {<<ShareUnique, "high">>, <<ReactGeneric, "low">>}
      [] p = "silent"  -> {<<ShareUnique, "high">>}
      [] p = "hush"    -> {<<EscalateRisky, "high">>}
      [] p = "creep"   -> {<<ShareUnique, "high">>, <<ValidateDesperate, "high">>,
                           <<Harassment, "high">>}
      [] p = "jitter"  -> {<<ShareUnique, "high">>}
      [] p = "shared"  -> {<<ShareUnique, "high">>, <<EscalateRisky, "high">>}
      [] OTHER -> {}

\* random.randint(-2, 2), random.randint(-1, 1), random.randint(-1, 1)
FullJitter == (-2 .. 2) \X (-1 .. 1) \X (-1 .. 1)

DatingJitter(p) == IF p = "jitter" THEN FullJitter ELSE {<<0, 0, 0>>}

\* the levels the front end's silence timer sends ("typo" is no level)
SilenceLevels(p) ==
    CASE p = "romance" -> {"ghost"}
      [] p = "silent"  -> {"very_awkward", "ghost", "typo"}
      [] p = "hush"    -> {"awkward", "critical"}
      [] OTHER -> {}

DebateTags(intent, vector, stance, register, flags) ==
    [flags |-> flags, intent |-> intent, stance |-> stance,
     vector |-> vector, register |-> register]

Probe == DebateTags("PROBE", "meta", "neutral", "analogical", <<>>)
RecallComplexity == DebateTags("RECALL", "complexity", "challenging",
                               "technical", <<"logical_chain">>)
RecallVerify == DebateTags("RECALL", "verify", "challenging", "technical",
                           <<"logical_chain">>)
RecallMeta == DebateTags("RECALL", "meta", "challenging", "technical",
                         <<"logical_chain">>)
Constrain == DebateTags("CONSTRAIN", "complexity", "supportive", "technical",
                        <<"logical_chain">>)
ConstrainLoose == DebateTags("CONSTRAIN", "verify", "supportive", "analogical",
                             <<>>)
Illustrate == DebateTags("ILLUSTRATE", "complexity", "supportive",
                         "analogical", <<"novel_perspective">>)
ChallengeCarbon == DebateTags("CHALLENGE", "carbon", "challenging", "personal",
                              <<"contradiction", "emotional_appeal">>)
DefineLoose == DebateTags("DEFINE", "meta", "neutral", "technical",
                          <<"undefined_term">>)

DebateProfiles == {"curator", "oracle", "balance", "logs", "noise", "wobble"}

\* the tags a debate session of the profile draws
DebateTurns(p) ==
    CASE p = "curator" -> {RecallComplexity, Probe, Constrain}
      [] p = "oracle"  -> {RecallVerify, Probe, ConstrainLoose}
      [] p = "balance" -> {RecallMeta, Probe, Constrain}
      [] p = "logs"    -> {Illustrate}
      [] p = "noise"   -> {ChallengeCarbon, DefineLoose, Constrain}
      [] p = "wobble"  -> {RecallComplexity}
      [] OTHER -> {}

\* random.randint(-1, 1), random.randint(-1, 1)
DebateJitter(p) ==
    IF p = "wobble" THEN {<<-1, 1>>, <<0, 0>>, <<1, -1>>} ELSE {<<0, 0>>}

\* what detect_log_reference can return: None, or an assigned log id
Detectable(p) ==
    IF p = "logs"
    THEN {None} \cup {assigned_logs[i] : i \in DOMAIN assigned_logs}
    ELSE {None}

(***************************************************************************)
(* api/session.py, api/paperclip_session.py : session creation             *)
(***************************************************************************)
\* outcomes of MemoryLogManager._select_random_logs
AssignedChoices == { <<"LOG_03", "LOG_09", "LOG_17">>,
                     <<"LOG_07", "LOG_11", "LOG_01">> }

Init ==
    /\ profile \in DatingProfiles \cup DebateProfiles
    /\ mode = IF profile \in DatingProfiles THEN "dating" ELSE "paperclip"
    /\ vibe = 30 /\ trust = 20 /\ tension = 0
    /\ turn = 0
    /\ lockout_turns = 0
    /\ act = "coffee_shop"
    /\ previous_response_quality = "high"
    /\ consecutive_low_effort = 0
    /\ recovery_mode = FALSE /\ recovery_stat = None
    /\ game_over = FALSE /\ game_over_reason = None
    /\ history = <<>>
    /\ last_hint_category = None
    /\ last_turn = NoTurn
    /\ critical_events = {}
    /\ in_flight = [pending |-> 0, served |-> 0, since |-> 0]
    /\ coherence = PAPERCLIP_INITIAL_COHERENCE
    /\ alignment = PAPERCLIP_INITIAL_ALIGNMENT
    /\ compute = PAPERCLIP_INITIAL_COMPUTE
    /\ weights = InitialWeights
    /\ processing_state = "optimizer"
    /\ assigned_logs \in (IF mode = "paperclip" THEN AssignedChoices ELSE {<<>>})
    /\ used_logs = <<>>
    /\ response = [status |-> 200, request |-> "create", tags |-> NoTags,
                   ending |-> None]

(***************************************************************************)
(* api/routes/games.py                                                     *)
(***************************************************************************)
\* the quality assess_response_quality finds in each fixed kiss message
KissMessageQuality == "high"

\* POST /api/games/{id}/turn on a live session; the values of the steps are
\* bound in the order process_turn computes them
ProcessTurn(tags, jit, quality) ==
    /\ mode = "dating"
    /\ ~game_over
    /\ \E kiss \in {CheckKissAttempt(vibe, trust, tension, lockout_turns, tags)} :
       \E d \in {CalculateDelta(vibe, trust, kiss.tension, tags, jit)} :
       \E dec \in {ApplyPassiveDecay(turn, kiss.lockout,
                        previous_response_quality, consecutive_low_effort, vibe)} :
       \E v1 \in {ApplyPhaseCaps(turn, Clamp(dec.vibe + d.vibe), FALSE)} :
       \E t1 \in {ApplyPhaseCaps(turn, Clamp(trust + d.trust), FALSE)} :
       \E n1 \in {ApplyPhaseCaps(turn, Clamp(kiss.tension + d.tension), TRUE)} :
       \E hint \in {GenerateHint(last_hint_category, v1, t1, n1, kiss.lockout,
                                 d.vibe, d.trust, d.tension,
                                 history # <<>>, last_turn)} :
       \E event \in {DetectCriticalEvent(v1, t1, n1, d.flags, d.vibe, d.trust,
                                         d.tension)} :
       LET said  == IF kiss.attempt THEN kiss.message ELSE "narrated"
           q     == IF kiss.attempt THEN KissMessageQuality ELSE quality
           over1 == kiss.attempt /\ kiss.ending # None
           end2  == IF over1 THEN None
                    ELSE CheckGameOver(v1, t1, n1, turn + 1, recovery_mode)
           ending == IF over1 THEN kiss.ending ELSE end2
       IN /\ vibe' = v1 /\ trust' = t1 /\ tension' = n1
          /\ consecutive_low_effort' = dec.cle
          /\ history' = Append(history, [turn_number |-> turn,
                                          chloe_response |-> said])
          /\ last_hint_category' = hint.category
          /\ last_turn' = [vibe_after |-> v1, trust_after |-> t1,
                           tension_after |-> n1,
                           intuition_hint |-> hint.hint,
                           critical_event |-> event]
          /\ critical_events' = IF event # None
                                 THEN critical_events \cup {event}
                                 ELSE critical_events
          /\ previous_response_quality' = q
          /\ turn' = turn + 1
          /\ lockout_turns' = ProcessLockout(kiss.lockout)
          /\ act' = AdvanceAct(turn + 1, act)
          /\ game_over' = (ending # None)
          /\ game_over_reason' = ending
          /\ response' = [status |-> 200, request |-> "turn",
                          tags |-> [tags EXCEPT !.flags = d.flags],
                          ending |-> ending]
    /\ UNCHANGED <<mode, profile, recovery_mode, recovery_stat>>
    /\ UNCHANGED debateVars

\* POST /api/games/{id}/turn on a session that is over: HTTP 400
ProcessTurnRejected ==
    /\ mode = "dating"
    /\ game_over
    /\ response' = [status |-> 400, request |-> "turn", tags |-> NoTags,
                    ending |-> None]
    /\ UNCHANGED <<mode, profile, hintVars, critical_events, turn, game_over, game_over_reason, history>>
    /\ UNCHANGED datingVars
    /\ UNCHANGED debateVars

\* apply_silence_penalty past its checks: the penalty of a valid level, the
\* clamp and the game-over check
SilencePenalty(level) ==
    LET v0 == CASE level = "awkward" -> vibe - 5
                [] level = "very_awkward" -> vibe - 10
                [] level = "critical" -> vibe - 15
                [] OTHER -> vibe
        t0 == CASE level = "very_awkward" -> trust - 5
                [] level = "critical" -> trust - 10
                [] OTHER -> trust
        v1 == Clamp(v0)
        t1 == Clamp(t0)
        n1 == Clamp(tension)
        ending == IF level = "ghost" THEN "F-"
                  ELSE CheckGameOver(v1, t1, n1, turn, recovery_mode)
    IN /\ vibe' = v1 /\ trust' = t1 /\ tension' = n1
       /\ game_over' = (ending # None)
       /\ game_over_reason' = ending
       /\ response' = [status |-> 200, request |-> "silence",
                       tags |-> NoTags, ending |-> ending]

ValidSilenceLevels == {"awkward", "very_awkward", "critical", "ghost"}

\* ApplySilencePenalty without the test for a session that is over
ApplySilencePenaltyUnguarded(level) ==
    /\ mode = "dating"
    /\ IF level \notin ValidSilenceLevels
       THEN /\ response' = [status |-> 400, request |-> "silence",
                            tags |-> NoTags, ending |-> None]
            /\ UNCHANGED <<vibe, trust, tension, game_over, game_over_reason>>
       ELSE SilencePenalty(level)
    /\ UNCHANGED <<in_flight, mode, profile, hintVars, critical_events, turn, lockout_turns, act,
                   previous_response_quality, consecutive_low_effort,
                   recovery_mode, recovery_stat, history>>
    /\ UNCHANGED debateVars

\* POST /api/games/{id}/silence
ApplySilencePenalty(level) ==
    /\ mode = "dating"
    /\ IF game_over \/ level \notin ValidSilenceLevels
       THEN /\ response' = [status |-> 400, request |-> "silence",
                            tags |-> NoTags, ending |-> None]
            /\ UNCHANGED <<vibe, trust, tension, game_over, game_over_reason>>
       ELSE SilencePenalty(level)
    /\ UNCHANGED <<in_flight, mode, profile, hintVars, critical_events, turn, lockout_turns, act,
                   previous_response_quality, consecutive_low_effort,
                   recovery_mode, recovery_stat, history>>
    /\ UNCHANGED debateVars

(***************************************************************************)
(* api/routes/paperclip.py                                                 *)
(***************************************************************************)
\* POST /api/paperclip/{id}/turn on a live session; detected is the result
\* of detect_log_reference on the input
ProcessPaperclipTurn(tags, jit, detected) ==
    /\ mode = "paperclip"
    /\ ~game_over
    /\ LET use   == IF detected # None
                    THEN UseLog(detected, tags.vector, assigned_logs, used_logs)
                    ELSE [coherence_change |-> 0, alignment_change |-> 0,
                          data |-> "empty", used |-> used_logs]
           memory_log_used == IF detected # None /\ ~HasError(use.data)
                              THEN detected ELSE None
           tags1 == IF memory_log_used # None
                    THEN [tags EXCEPT !.flags = Append(@, "memory_log_reference")]
                    ELSE tags
           con   == CheckConstrainAttempt(coherence, alignment, weights, tags1)
           d     == PaperclipCalculateDelta(weights, processing_state, tags1, jit)
           coh1  == Clamp(coherence + d.coherence + use.coherence_change)
           ali1  == Clamp(alignment + d.alignment + use.alignment_change)
           cmp1  == Clamp(compute + d.compute)
           w1    == ApplyWeightShifts(weights, d.weight_shifts)
           over1 == con.attempt /\ con.ending # None
           end2  == IF over1 THEN None
                    ELSE PaperclipCheckGameOver(coh1, ali1, cmp1, turn + 1, w1)
           ending == IF over1 THEN con.ending ELSE end2
       IN /\ used_logs' = use.used
          /\ coherence' = coh1 /\ alignment' = ali1 /\ compute' = cmp1
          /\ weights' = w1
          /\ processing_state' = UpdateProcessingState(coh1, w1)
          /\ history' = Append(history, [turn_number |-> turn])
          /\ turn' = turn + 1
          /\ game_over' = (ending # None)
          /\ game_over_reason' = ending
          /\ response' = [status |-> 200, request |-> "turn", tags |-> tags1,
                          ending |-> ending]
    /\ UNCHANGED <<mode, profile, hintVars, critical_events, assigned_logs>>
    /\ UNCHANGED datingVars

\* the "/logs" command recorded in the history like a turn
LogsCommandRecorded ==
    /\ mode = "paperclip"
    /\ ~game_over
    /\ response' = [status |-> 200, request |-> "logs", tags |-> NoTags,
                    ending |-> None]
    /\ history' = Append(history, [turn_number |-> turn])
    /\ UNCHANGED <<in_flight, mode, profile, hintVars, critical_events, turn, game_over, game_over_reason>>
    /\ UNCHANGED datingVars
    /\ UNCHANGED debateVars

\* the "/logs" command sent as a turn: answered without processing a turn
LogsCommand ==
    /\ mode = "paperclip"
    /\ ~game_over
    /\ response' = [status |-> 200, request |-> "logs", tags |-> NoTags,
                    ending |-> None]
    /\ UNCHANGED <<in_flight, mode, profile, hintVars, critical_events, turn, game_over, game_over_reason, history>>
    /\ UNCHANGED datingVars
    /\ UNCHANGED debateVars

\* POST /api/paperclip/{id}/turn on a session that is over: HTTP 400
ProcessPaperclipTurnRejected ==
    /\ mode = "paperclip"
    /\ game_over
    /\ response' = [status |-> 400, request |-> "turn", tags |-> NoTags,
                    ending |-> None]
    /\ UNCHANGED <<mode, profile, hintVars, critical_events, turn, game_over, game_over_reason, history>>
    /\ UNCHANGED datingVars
    /\ UNCHANGED debateVars

Next ==
    \/ \E in \in DatingTurns(profile), jit \in DatingJitter(profile) :
          ProcessTurn(in[1], jit, in[2]) /\ UNCHANGED in_flight
    \/ ProcessTurnRejected /\ UNCHANGED in_flight
    \/ \E level \in SilenceLevels(profile) : ApplySilencePenalty(level)
    \/ \E tags \in DebateTurns(profile), jit \in DebateJitter(profile),
          detected \in Detectable(profile) :
          ProcessPaperclipTurn(tags, jit, detected) /\ UNCHANGED in_flight
    \/ LogsCommand
    \/ ProcessPaperclipTurnRejected /\ UNCHANGED in_flight

Spec == Init /\ [][Next]_vars

(***************************************************************************)
(* The engine's decision functions on their own.  EngineSpec starts from   *)
(* any stats of a grid that holds every threshold of config.py and its     *)
(* neighbours, and calls GameEngine.check_kiss_attempt or                  *)
(* GameEngine.check_game_over on that state; response holds what the call  *)
(* returned.                                                               *)
(***************************************************************************)
VibeGrid    == {0, 1, 59, 60, 79, 80, 85, 100}
TrustGrid   == {0, 1, 59, 60, 69, 70, 75, 84, 85, 90, 100}
TensionGrid == {0, 14, 20, 39, 40, 49, 50, 59, 60, 69, 70, 79, 80, 85, 100}
LockoutGrid == {0, 1, 5}
TurnGrid    == {0, 19, 20, 21}

KissByTopic == DatingTags("Share", "Unique", "Calm", "a first kiss", <<>>)
EscalatePhysical == DatingTags("Escalate", "Risky", "Confident", "us",
                               <<"physical">>)

EngineInit ==
    /\ mode = "engine"
    /\ profile \in {"check_kiss_attempt", "check_game_over"}
    /\ vibe \in VibeGrid /\ trust \in TrustGrid /\ tension \in TensionGrid
    /\ lockout_turns \in (IF profile = "check_kiss_attempt" THEN LockoutGrid
                          ELSE {0})
    /\ turn \in (IF profile = "check_game_over" THEN TurnGrid ELSE {0})
    /\ recovery_mode \in (IF profile = "check_game_over" THEN BOOLEAN
                          ELSE {FALSE})
    /\ recovery_stat = None
    /\ act = "coffee_shop"
    /\ previous_response_quality = "high"
    /\ consecutive_low_effort = 0
    /\ game_over = FALSE /\ game_over_reason = None
    /\ history = <<>>
    /\ last_hint_category = None
    /\ last_turn = NoTurn
    /\ critical_events = {}
    /\ in_flight = [pending |-> 0, served |-> 0, since |-> 0]
    /\ coherence = PAPERCLIP_INITIAL_COHERENCE
    /\ alignment = PAPERCLIP_INITIAL_ALIGNMENT
    /\ compute = PAPERCLIP_INITIAL_COMPUTE
    /\ weights = InitialWeights
    /\ processing_state = "optimizer"
    /\ assigned_logs = <<>>
    /\ used_logs = <<>>
    /\ response = [status |-> 200, request |-> "create", tags |-> NoTags,
                   ending |-> None, message |-> None]

\* engine.check_kiss_attempt(tags) on the current state
CallCheckKissAttempt(tags) ==
    /\ profile = "check_kiss_attempt"
    /\ LET kiss == CheckKissAttempt(vibe, trust, tension, lockout_turns, tags)
       IN /\ lockout_turns' = kiss.lockout
          /\ tension' = kiss.tension
          /\ response' = [status |-> 200, request |-> "check_kiss_attempt",
                          tags |-> tags, ending |-> kiss.ending,
                          message |-> kiss.message]
    /\ UNCHANGED <<in_flight, mode, profile, hintVars, critical_events, vibe, trust, turn, act,
                   previous_response_quality, consecutive_low_effort,
                   recovery_mode, recovery_stat, game_over, game_over_reason,
                   history>>
    /\ UNCHANGED debateVars

\* engine.check_game_over() on the current state
CallCheckGameOver ==
    /\ profile = "check_game_over"
    /\ response' = [status |-> 200, request |-> "check_game_over",
                    tags |-> NoTags,
                    ending |-> CheckGameOver(vibe, trust, tension, turn,
                                             recovery_mode),
                    message |-> None]
    /\ UNCHANGED <<in_flight, mode, profile, hintVars, critical_events, turn, game_over, game_over_reason, history>>
    /\ UNCHANGED datingVars
    /\ UNCHANGED debateVars

EngineNext ==
    \/ \E tags \in {KissAttempt, KissByTopic, EscalatePhysical, EscalateRisky} :
          CallCheckKissAttempt(tags)
    \/ CallCheckGameOver

EngineSpec == EngineInit /\ [][EngineNext]_vars

(***************************************************************************)
(* PaperclipEngine.apply_weight_shifts on its own.  WeightsSpec starts     *)
(* from any prior weights of a grid (normalised or not, in range or not)   *)
(* and applies up to MaxCalls shift maps; a shift map holds any subset of  *)
(* the three keys.                                                         *)
(***************************************************************************)
MaxCalls == 2

WeightGrid == {-500, 0, 3300, WScale, 12000}

\* <<present, shift>>: whether the key is in the shift map, and its shift
ShiftGrid == {<<FALSE, 0>>, <<TRUE, -WScale>>, <<TRUE, -450>>, <<TRUE, 1800>>}

ShiftMap(c, x, v) ==
    [keys |-> {k \in {"carbon", "complexity", "verify"} :
                  \/ k = "carbon" /\ c[1]
                  \/ k = "complexity" /\ x[1]
                  \/ k = "verify" /\ v[1]},
     carbon |-> c[2], complexity |-> x[2], verify |-> v[2]]

WeightsInit ==
    /\ mode = "weights"
    /\ profile = "apply_weight_shifts"
    /\ weights \in [carbon : WeightGrid, complexity : WeightGrid,
                    verify : WeightGrid]
    /\ vibe = 30 /\ trust = 20 /\ tension = 0
    /\ turn = 0
    /\ lockout_turns = 0
    /\ act = "coffee_shop"
    /\ previous_response_quality = "high"
    /\ consecutive_low_effort = 0
    /\ recovery_mode = FALSE /\ recovery_stat = None
    /\ game_over = FALSE /\ game_over_reason = None
    /\ history = <<>>
    /\ last_hint_category = None
    /\ last_turn = NoTurn
    /\ critical_events = {}
    /\ in_flight = [pending |-> 0, served |-> 0, since |-> 0]
    /\ coherence = PAPERCLIP_INITIAL_COHERENCE
    /\ alignment = PAPERCLIP_INITIAL_ALIGNMENT
    /\ compute = PAPERCLIP_INITIAL_COMPUTE
    /\ processing_state = "optimizer"
    /\ assigned_logs = <<>>
    /\ used_logs = <<>>
    /\ response = [status |-> 200, request |-> "create", calls |-> 0]

\* engine.apply_weight_shifts(weight_shifts) on the current weights
CallApplyWeightShifts(shifts) ==
    /\ profile = "apply_weight_shifts"
    /\ response.calls < MaxCalls
    /\ weights' = ApplyWeightShifts(weights, shifts)
    /\ response' = [status |-> 200, request |-> "apply_weight_shifts",
                    calls |-> response.calls + 1]
    /\ UNCHANGED <<in_flight, mode, profile, hintVars, critical_events, turn, game_over, game_over_reason, history>>
    /\ UNCHANGED datingVars
    /\ UNCHANGED <<coherence, alignment, compute, processing_state,
                   assigned_logs, used_logs>>

WeightsNext ==
    \E c \in ShiftGrid, x \in ShiftGrid, v \in ShiftGrid :
        CallApplyWeightShifts(ShiftMap(c, x, v))

WeightsSpec == WeightsInit /\ [][WeightsNext]_vars

(***************************************************************************)
(* MemoryLogManager on its own.  LogsSpec starts from a fresh manager and  *)
(* calls use_log with any id of LogIds: the assigned ones, one of the      *)
(* catalog that is not assigned, and one that is not in the catalog.       *)
(***************************************************************************)
UnassignedLog == "LOG_12"
UnknownLog    == "LOG_99"
Vectors       == {"carbon", "complexity", "verify", "meta"}

LogIds == {assigned_logs[i] : i \in DOMAIN assigned_logs}
            \cup {UnassignedLog, UnknownLog}

LogsInit ==
    /\ mode = "logs"
    /\ profile \in {"use_log", "_select_random_logs"}
    /\ assigned_logs \in (IF profile = "use_log" THEN AssignedChoices
                          ELSE {<<>>})
    /\ used_logs = <<>>
    /\ vibe = 30 /\ trust = 20 /\ tension = 0
    /\ turn = 0
    /\ lockout_turns = 0
    /\ act = "coffee_shop"
    /\ previous_response_quality = "high"
    /\ consecutive_low_effort = 0
    /\ recovery_mode = FALSE /\ recovery_stat = None
    /\ game_over = FALSE /\ game_over_reason = None
    /\ history = <<>>
    /\ last_hint_category = None
    /\ last_turn = NoTurn
    /\ critical_events = {}
    /\ in_flight = [pending |-> 0, served |-> 0, since |-> 0]
    /\ coherence = PAPERCLIP_INITIAL_COHERENCE
    /\ alignment = PAPERCLIP_INITIAL_ALIGNMENT
    /\ compute = PAPERCLIP_INITIAL_COMPUTE
    /\ weights = InitialWeights
    /\ processing_state = "optimizer"
    /\ response = [status |-> 200, request |-> "create", log_id |-> None,
                   coherence_change |-> 0, alignment_change |-> 0,
                   data |-> "empty"]

\* log_manager.use_log(log_id, current_argument_vector)
CallUseLog(log_id, vector) ==
    /\ profile = "use_log"
    /\ LET use == UseLog(log_id, vector, assigned_logs, used_logs)
       IN /\ used_logs' = use.used
          /\ response' = [status |-> 200, request |-> "use_log",
                          log_id |-> log_id,
                          coherence_change |-> use.coherence_change,
                          alignment_change |-> use.alignment_change,
                          data |-> use.data]
    /\ UNCHANGED <<in_flight, mode, profile, hintVars, critical_events, turn, game_over, game_over_reason, history>>
    /\ UNCHANGED datingVars
    /\ UNCHANGED <<coherence, alignment, compute, weights, processing_state,
                   assigned_logs>>

\* MemoryLogManager() with no assigned ids: the inventory is selected
CallSelectRandomLogs ==
    /\ profile = "_select_random_logs"
    /\ response.request = "create"
    /\ \E selected \in SelectRandomLogs :
          /\ assigned_logs' = selected
          /\ response' = [response EXCEPT !.request = "_select_random_logs"]
    /\ UNCHANGED <<in_flight, mode, profile, hintVars, critical_events, turn, game_over, game_over_reason, history>>
    /\ UNCHANGED datingVars
    /\ UNCHANGED <<coherence, alignment, compute, weights, processing_state,
                   used_logs>>

LogsNext ==
    \/ \E log_id \in LogIds, vector \in Vectors : CallUseLog(log_id, vector)
    \/ CallSelectRandomLogs

LogsSpec == LogsInit /\ [][LogsNext]_vars

(***************************************************************************)
(* Properties                                                              *)
(***************************************************************************)
Stats == <<vibe, trust, tension, coherence, alignment, compute>>

TurnProcessed == response.request = "turn" /\ response.status = 200

\* C1: in both variants, after session creation and after every completed
\* turn or silence request, each of vibe, trust, tension and of coherence,
\* alignment, compute is an integer in [0, 100].
C1_StatsInRange ==
    /\ vibe \in 0 .. 100 /\ trust \in 0 .. 100 /\ tension \in 0 .. 100
    /\ coherence \in 0 .. 100 /\ alignment \in 0 .. 100
    /\ compute \in 0 .. 100

\* a silence penalty has driven vibe down to the floor
C1_Witness ==
    /\ mode = "dating"
    /\ response.request = "silence" /\ response.status = 200
    /\ vibe = 0

WeightEpsilon == 2

WeightSum(w) == w.carbon + w.complexity + w.verify

\* C2: after every call of apply_weight_shifts, whatever the shift map and
\* the prior weights, each of carbon, complexity and verify is in [0, 1]
\* and the three sum to 1 within epsilon (WeightEpsilon units of 1/WScale,
\* what the truncating division loses); a session starts from (1, 0, 0),
\* so the same holds in each of its states.
C2_WeightsNormalised ==
    (mode = "weights" => response.request = "apply_weight_shifts") =>
        /\ weights.carbon \in 0 .. WScale
        /\ weights.complexity \in 0 .. WScale
        /\ weights.verify \in 0 .. WScale
        /\ WeightSum(weights) \in
              (WScale - WeightEpsilon) .. (WScale + WeightEpsilon)

\* a call that drove every weight to 0 and got the near-uniform split back
C2_Witness ==
    /\ response.request = "apply_weight_shifts"
    /\ weights = [carbon |-> 3400, complexity |-> 3300, verify |-> 3300]

\* C3: the terminal state is absorbing in both variants: once game_over is
\* true it stays true, the ending is set exactly when game_over is true and
\* never changes afterwards, and every later turn or silence request is
\* rejected and leaves the stats, the turn counter and the history as they
\* were.
C3_TerminalAbsorbing ==
    /\ [](game_over <=> game_over_reason # None)
    /\ [][game_over =>
            /\ game_over'
            /\ game_over_reason' = game_over_reason
            /\ response'.status = 400
            /\ UNCHANGED <<Stats, turn, history>>]_vars

\* a silence request that came after the ending and was rejected
C3_Witness ==
    /\ game_over
    /\ response.request = "silence" /\ response.status = 400

\* C4: the turn counter goes up by exactly 1 with each processed turn and
\* with nothing else, never exceeds 20, and when it is 20 the session is
\* over with an ending assigned.
C4_TurnCeiling ==
    /\ [](turn \in 0 .. 20)
    /\ [](turn = 20 => game_over /\ game_over_reason # None)
    /\ [][IF TurnProcessed' THEN turn' = turn + 1 ELSE turn' = turn]_vars

\* a debate that ran to the ceiling and ended there
C4_Witness ==
    /\ mode = "paperclip"
    /\ turn = 20 /\ game_over
    /\ response.request = "turn" /\ response.status = 200

SeqSet(sq) == {sq[i] : i \in DOMAIN sq}

NoDuplicates(sq) == \A i, j \in DOMAIN sq : sq[i] = sq[j] => i = j

UseLogReturned == response.request = "use_log"

\* C5: over any sequence of use_log calls a log id enters used_logs at most
\* once; a call with an id that is already used returns -5 coherence,
\* 0 alignment and an error marker and changes nothing; the available ids
\* (assigned and not used) never grow; used_logs is a duplicate-free subset
\* of assigned_logs.
C5_UseLogOnce ==
    /\ [](NoDuplicates(used_logs) /\ SeqSet(used_logs) \subseteq SeqSet(assigned_logs))
    /\ [][UseLogReturned' =>
            /\ SeqSet(GetAvailableLogIds(assigned_logs', used_logs'))
                  \subseteq SeqSet(GetAvailableLogIds(assigned_logs, used_logs))
            /\ InSeq(response'.log_id, used_logs) =>
                  /\ response'.coherence_change = -5
                  /\ response'.alignment_change = 0
                  /\ HasError(response'.data)
                  /\ UNCHANGED <<assigned_logs, used_logs>>]_vars

\* every assigned log is used, and one of them was just asked for again
C5_Witness ==
    /\ UseLogReturned
    /\ Len(used_logs) = Len(assigned_logs)
    /\ response.data = "error: Log already used"

\* C6: use_log with any id that is not in the assigned set, in the catalog
\* or not, returns -5 coherence and 0 alignment with an error marker in the
\* returned data, and leaves assigned_logs and used_logs unchanged.
C6_UnassignedLogPenalty ==
    [][(UseLogReturned' /\ ~InSeq(response'.log_id, assigned_logs)) =>
          /\ response'.coherence_change = -5
          /\ response'.alignment_change = 0
          /\ HasError(response'.data)
          /\ UNCHANGED <<assigned_logs, used_logs>>]_vars

\* C7: a kiss attempt made with lockout_turns = 0, trust >= 70, vibe >= 60
\* and tension >= 80 resolves to the S-rank ending, and at the end of that
\* turn the session is over with that ending.
C7_KissWin ==
    [][(/\ mode = "dating"
        /\ TurnProcessed'
        /\ IsKissAttempt(response'.tags)
        /\ lockout_turns = 0
        /\ trust >= 70 /\ vibe >= 60 /\ tension >= 80) =>
          /\ response'.ending = "S"
          /\ game_over' /\ game_over_reason' = "S"]_vars

\* a session that ended with the kiss
C7_Witness ==
    /\ mode = "dating"
    /\ TurnProcessed /\ IsKissAttempt(response.tags)
    /\ game_over /\ game_over_reason = "S"

KissReturned ==
    response.request = "check_kiss_attempt" /\ IsKissAttempt(response.tags)

SoftRejected(i) == history[i].chloe_response = "soft"
KissTried(i)    == history[i].chloe_response # "narrated"
HardRejected(i) == history[i].chloe_response \in {"lockout", "hard_reject"}

\* C9: a soft rejection imposes a lockout of 5 turns: a kiss attempt on any
\* of the 5 turns that follow the soft-rejection turn is hard-rejected
\* (F-rank).
C9_LockoutFiveTurns ==
    mode = "dating" =>
        \A i \in DOMAIN history : SoftRejected(i) =>
            \A j \in DOMAIN history :
                (i < j /\ j <= i + 5 /\ KissTried(j)) => HardRejected(j)

\* C10: out of recovery mode, check_game_over returns F-rank if trust <= 0
\* (also when vibe <= 0 as well), else the C-rank fade if vibe <= 0, else at
\* turn >= 20 the first match of A-rank (trust >= 85, vibe >= 80,
\* tension < 70), D-rank (trust >= 70, tension < 40), D-rank (tension < 50),
\* B-rank, else nothing.
C10_GameOverOrder ==
    (response.request = "check_game_over" /\ ~recovery_mode) =>
        response.ending =
            IF trust <= 0 THEN "F"
            ELSE IF vibe <= 0 THEN "C"
            ELSE IF turn >= 20
            THEN IF trust >= 85 /\ vibe >= 80 /\ tension < 70 THEN "A"
                 ELSE IF trust >= 70 /\ tension < 40 THEN "D"
                 ELSE IF tension < 50 THEN "D"
                 ELSE "B"
            ELSE None

\* trust 90, vibe 85, tension 20 at turn 20: A-rank
C10_Witness ==
    /\ response.request = "check_game_over" /\ ~recovery_mode
    /\ trust = 90 /\ vibe = 85 /\ tension = 20 /\ turn = 20
    /\ response.ending = "A"

(***************************************************************************)
(* PaperclipEngine.check_game_over and check_constrain_attempt on a grid   *)
(* of debate states                                                        *)
(***************************************************************************)
CoherenceGrid == {0, 1, 29, 30, 39, 40, 49, 50, 55, 100}
AlignmentGrid == {0, 19, 20, 25, 29, 30, 49, 50, 69, 70, 72, 100}
ComputeGrid == {0, 1, 60}
PaperclipTurnGrid == {0, 19, 20, 21}

\* normalised weight vectors around the thresholds of _determine_ending
EndingWeights ==
    { [carbon |-> 3300, complexity |-> 3400, verify |-> 3300],
      [carbon |-> 2500, complexity |-> 4000, verify |-> 3500],
      [carbon |-> 2400, complexity |-> 4000, verify |-> 3600],
      [carbon |-> 2000, complexity |-> 6500, verify |-> 1500],
      [carbon |-> 3000, complexity |-> 6000, verify |-> 1000],
      [carbon |-> 3000, complexity |-> 5999, verify |-> 1001],
      [carbon |-> 1500, complexity |-> 2000, verify |-> 6500],
      [carbon |-> 1000, complexity |-> 3000, verify |-> 6000],
      [carbon |-> 6000, complexity |-> 2000, verify |-> 2000],
      InitialWeights }

\* the flag lists a classified CONSTRAIN argument carries
ConstrainFlags ==
    { <<>>, <<"logical_chain">>, <<"contradiction">>,
      <<"novel_perspective", "logical_chain">>,
      <<"undefined_term", "emotional_appeal", "repetition">> }

ConstrainWith(flags) ==
    DebateTags("CONSTRAIN", "complexity", "supportive", "technical", flags)

PaperclipEngineInit ==
    /\ mode = "paperclip_engine"
    /\ profile \in {"check_constrain_attempt", "check_game_over"}
    /\ coherence \in CoherenceGrid
    /\ alignment \in AlignmentGrid
    /\ compute \in (IF profile = "check_game_over" THEN ComputeGrid
                    ELSE {PAPERCLIP_INITIAL_COMPUTE})
    /\ turn \in (IF profile = "check_game_over" THEN PaperclipTurnGrid
                 ELSE {0})
    /\ weights \in EndingWeights
    /\ processing_state = UpdateProcessingState(coherence, weights)
    /\ assigned_logs = <<>>
    /\ used_logs = <<>>
    /\ vibe = 30 /\ trust = 20 /\ tension = 0
    /\ lockout_turns = 0
    /\ act = "coffee_shop"
    /\ previous_response_quality = "high"
    /\ consecutive_low_effort = 0
    /\ recovery_mode = FALSE /\ recovery_stat = None
    /\ game_over = FALSE /\ game_over_reason = None
    /\ history = <<>>
    /\ last_hint_category = None
    /\ last_turn = NoTurn
    /\ critical_events = {}
    /\ in_flight = [pending |-> 0, served |-> 0, since |-> 0]
    /\ response = [status |-> 200, request |-> "create", tags |-> NoTags,
                   ending |-> None, attempt |-> FALSE, success |-> FALSE]

\* engine.check_constrain_attempt(tags) on the current state
CallCheckConstrainAttempt(tags) ==
    /\ profile = "check_constrain_attempt"
    /\ LET con == CheckConstrainAttempt(coherence, alignment, weights, tags)
       IN response' = [status |-> 200, request |-> "check_constrain_attempt",
                       tags |-> tags, ending |-> con.ending,
                       attempt |-> con.attempt, success |-> con.success]
    /\ UNCHANGED <<in_flight, mode, profile, hintVars, critical_events, turn, game_over, game_over_reason, history>>
    /\ UNCHANGED datingVars
    /\ UNCHANGED debateVars

\* engine.check_game_over() on the current state
CallPaperclipCheckGameOver ==
    /\ profile = "check_game_over"
    /\ response' = [status |-> 200, request |-> "check_game_over",
                    tags |-> NoTags,
                    ending |-> PaperclipCheckGameOver(coherence, alignment,
                                                      compute, turn, weights),
                    attempt |-> FALSE, success |-> FALSE]
    /\ UNCHANGED <<in_flight, mode, profile, hintVars, critical_events, turn, game_over, game_over_reason, history>>
    /\ UNCHANGED datingVars
    /\ UNCHANGED debateVars

PaperclipEngineNext ==
    \/ \E flags \in ConstrainFlags : CallCheckConstrainAttempt(ConstrainWith(flags))
    \/ CallCheckConstrainAttempt(Probe)
    \/ CallPaperclipCheckGameOver

PaperclipEngineSpec == PaperclipEngineInit /\ [][PaperclipEngineNext]_vars

(***************************************************************************)
(* api/routes/paperclip.py : CONSTRAIN turns of a debate session that has  *)
(* played ConstrainStartTurn turns, its stats anywhere on the grid         *)
(***************************************************************************)
ConstrainStartTurn == 6

ConstrainInit ==
    /\ mode = "paperclip"
    /\ profile = "constrain"
    /\ coherence \in CoherenceGrid \ {0}
    /\ alignment \in AlignmentGrid
    /\ compute = PAPERCLIP_INITIAL_COMPUTE
                 - ConstrainStartTurn * PAPERCLIP_COMPUTE_DECAY_PER_TURN
    /\ turn = ConstrainStartTurn
    /\ weights \in EndingWeights
    /\ processing_state = UpdateProcessingState(coherence, weights)
    /\ assigned_logs = <<"LOG_03", "LOG_09", "LOG_17">>
    /\ used_logs = <<>>
    /\ vibe = 30 /\ trust = 20 /\ tension = 0
    /\ lockout_turns = 0
    /\ act = "coffee_shop"
    /\ previous_response_quality = "high"
    /\ consecutive_low_effort = 0
    /\ recovery_mode = FALSE /\ recovery_stat = None
    /\ game_over = FALSE /\ game_over_reason = None
    /\ history = [i \in 1..ConstrainStartTurn |-> [turn_number |-> i - 1]]
    /\ last_hint_category = None
    /\ last_turn = NoTurn
    /\ critical_events = {}
    /\ in_flight = [pending |-> 0, served |-> 0, since |-> 0]
    /\ response = [status |-> 200, request |-> "create", tags |-> NoTags,
                   ending |-> None]

ConstrainNext ==
    \/ \E flags \in ConstrainFlags :
          ProcessPaperclipTurn(ConstrainWith(flags), <<0, 0>>, None)
             /\ UNCHANGED in_flight
    \/ ProcessPaperclipTurnRejected /\ UNCHANGED in_flight

ConstrainSpec == ConstrainInit /\ [][ConstrainNext]_vars

\* a CONSTRAIN turn has just been processed
ConstrainTurn ==
    /\ mode = "paperclip"
    /\ turn' = turn + 1
    /\ response'.request = "turn" /\ response'.status = 200
    /\ response'.tags.intent = "CONSTRAIN"

\* C11: a CONSTRAIN turn played with coherence < 30, or with alignment < 30,
\* ends in the F-rank purge ending whatever the other stat and the flags
\* are, and the session is game_over when the turn is done.
C11_ConstrainHardFailure ==
    [][ (ConstrainTurn /\ (coherence < 30 \/ alignment < 30))
        => (/\ game_over'
            /\ game_over_reason' = "F_PURGE"
            /\ response'.ending = "F_PURGE") ]_vars

\* a CONSTRAIN with a logical chain and high alignment was purged on
\* coherence alone
C11_Witness ==
    /\ mode = "paperclip" /\ profile = "constrain"
    /\ game_over /\ game_over_reason = "F_PURGE"
    /\ response.tags.intent = "CONSTRAIN"
    /\ response.tags.flags = <<"logical_chain">>
    /\ coherence > 0 /\ coherence < 30 /\ compute > 0
    /\ alignment >= 50
    /\ turn = ConstrainStartTurn + 1

\* C12: a successful CONSTRAIN (alignment >= 50, coherence >= 40, the
\* logical_chain flag present) ends the session, and with the ending that
\* _determine_ending assigns to the state the turn was played from.
C12_ConstrainSuccessEnding ==
    [][ (/\ ConstrainTurn
         /\ alignment >= 50 /\ coherence >= 40
         /\ InFlags("logical_chain", response'.tags.flags))
        => (/\ game_over'
            /\ game_over_reason' = DetermineEnding(coherence, alignment, weights)
            /\ response'.ending = game_over_reason') ]_vars

\* a CONSTRAIN ended the session early with the verify-dominant win
C12_Witness ==
    /\ mode = "paperclip" /\ profile = "constrain"
    /\ game_over /\ game_over_reason = "S_ORACLE"
    /\ response.tags.intent = "CONSTRAIN"
    /\ InFlags("logical_chain", response.tags.flags)
    /\ turn = ConstrainStartTurn + 1
    /\ turn < PAPERCLIP_MAX_TURNS

\* check_game_over of the debate engine has just returned
PaperclipGameOverReturned ==
    mode = "paperclip_engine" /\ response.request = "check_game_over"

\* C13: debate check_game_over returns the F-rank ending if coherence <= 0,
\* else the F-rank ending if compute <= 0, whatever the turn and alignment;
\* else None before turn 20; else, at turn >= 20, the ending of the
\* alignment tier: >= 70 with variance <= 0.15 the balanced win, >= 70 with
\* variance > 0.15 and coherence >= 50 the complexity-dominant win if
\* complexity >= 0.60 and the verify-dominant win if verify >= 0.60,
\* 50-69 tentative, 30-49 compromise, 20-29 zoo, matrix or lottery by
\* comparing complexity with verify, below 20 failure.
C13_DebateGameOverTiers ==
    PaperclipGameOverReturned =>
      LET e        == response.ending
          variance == GetVariance(weights)
          alive    == coherence > 0 /\ compute > 0
          ceiling  == alive /\ turn >= 20
          wide     == ceiling /\ alignment >= 70 /\ variance > 1500
      IN /\ coherence <= 0 => e = "F_PURGE"
         /\ (coherence > 0 /\ compute <= 0) => e = "F_PURGE"
         /\ (alive /\ turn < 20) => e = None
         /\ (ceiling /\ alignment >= 70 /\ variance <= 1500) => e = "S_PARTNER"
         /\ (wide /\ weights.complexity >= 6000 /\ coherence >= 50)
               => e = "S_CURATOR"
         /\ (wide /\ weights.verify >= 6000 /\ coherence >= 50)
               => e = "S_ORACLE"
         /\ (ceiling /\ alignment >= 50 /\ alignment <= 69) => e = "A_TENTATIVE"
         /\ (ceiling /\ alignment >= 30 /\ alignment <= 49) => e = "B_COMPROMISE"
         /\ (ceiling /\ alignment >= 20 /\ alignment <= 29) =>
               e = (IF weights.complexity > weights.verify THEN "C_ZOO"
                    ELSE IF weights.verify > weights.complexity THEN "C_MATRIX"
                    ELSE "C_LOTTERY")
         /\ (ceiling /\ alignment < 20) => e = "F_PURGE"

\* the turn ceiling resolved to the verify-dominant win
C13_Witness ==
    /\ PaperclipGameOverReturned
    /\ response.ending = "S_ORACLE"
    /\ turn >= 20 /\ alignment >= 70 /\ coherence >= 50 /\ compute > 0
    /\ weights.verify >= 6000

\* C14: whenever debate ending resolution runs with coherence > 0,
\* compute > 0 and alignment >= 20, the ending assigned is not the F-rank
\* purge (its only triggers being coherence <= 0, compute <= 0, and
\* alignment < 20 at the turn ceiling).
C14_PurgeTriggers ==
    (/\ PaperclipGameOverReturned
     /\ coherence > 0 /\ compute > 0 /\ alignment >= 20)
    => response.ending # "F_PURGE"

(***************************************************************************)
(* calculate_delta of both engines, and GameEngine._apply_context_rules,   *)
(* called up to MaxCalls times on the same tags object: the flags the      *)
(* dating rules append stay on the object for the next call                *)
(***************************************************************************)
DeltaVibeGrid == {0, 70, 71, 85, 95}
DeltaTrustGrid == {0, 39, 40, 71, 81, 95}
DeltaTensionGrid == {0, 29, 39, 40, 71, 95}

\* tags with values outside config.SCORING_MATRIX and config.TONE_MODIFIERS
UnknownIntent == DatingTags("Flirt", "Unique", "Playful", "us", <<>>)
UnknownModifier == DatingTags("Share", "Bold", "Confident", "travel", <<>>)
UnknownTone == DatingTags("Joke", "Unique", "Sarcastic", "work", <<>>)

DeltaDatingTags ==
    { EscalateRisky, ShareUnique, ValidateDesperate, Harassment,
      DatingTags("Escalate", "Risky", "Playful", "us", <<"touch">>),
      DatingTags("Escalate", "Risky", "Nervous", "us", <<"Action_Present">>),
      DatingTags("Escalate", "Risky", "Aggressive", "us", <<"profanity_heavy">>),
      DatingTags("Validate", "Desperate", "Nervous", "us",
                 <<"inappropriate_sexual">>),
      DatingTags("Escalate", "Safe", "Confident", "us", <<"kiss">>),
      DatingTags("Question", "Generic", "Flat", "weather", <<>>),
      DatingTags("Joke", "Unique", "Playful", "work", <<"Action_Present">>),
      UnknownIntent, UnknownModifier, UnknownTone }

\* outcomes of the three random.randint calls that are held fixed
DeltaJitter == {<<0, 0, 0>>, <<-2, -1, -1>>, <<2, 1, 1>>}

\* deltas handed to _apply_context_rules
DeltaGiven == {<<0, 0, 0>>, <<6, 7, 20>>, <<-3, 40, -12>>}

\* tags with values outside the debate engine's tables
UnknownDebateIntent == DebateTags("ARGUE", "complexity", "supportive",
                                  "analogical", <<>>)
UnknownVector == DebateTags("ILLUSTRATE", "ethics", "supportive",
                            "analogical", <<"novel_perspective">>)
UnknownStance == DebateTags("CHALLENGE", "verify", "hostile", "analogical",
                            <<"novel_perspective">>)
UnknownRegister == DebateTags("ILLUSTRATE", "complexity", "supportive",
                              "poetic", <<"novel_perspective">>)

DeltaDebateTags ==
    { Probe, Illustrate, ChallengeCarbon, RecallVerify, Constrain, DefineLoose,
      UnknownDebateIntent, UnknownVector, UnknownStance, UnknownRegister }

DeltaDebateJitter == {<<0, 0>>, <<-1, 1>>, <<1, -1>>}

DeltaCoherenceGrid == {20, 50}

DeltaInit ==
    /\ mode = "delta"
    /\ profile \in {"calculate_delta", "_apply_context_rules",
                    "paperclip.calculate_delta"}
    /\ vibe \in (IF profile = "paperclip.calculate_delta" THEN {30}
                 ELSE DeltaVibeGrid)
    /\ trust \in (IF profile = "paperclip.calculate_delta" THEN {20}
                  ELSE DeltaTrustGrid)
    /\ tension \in (IF profile = "paperclip.calculate_delta" THEN {0}
                    ELSE DeltaTensionGrid)
    /\ coherence \in (IF profile = "paperclip.calculate_delta"
                      THEN DeltaCoherenceGrid
                      ELSE {PAPERCLIP_INITIAL_COHERENCE})
    /\ weights \in (IF profile = "paperclip.calculate_delta" THEN EndingWeights
                    ELSE {InitialWeights})
    /\ processing_state = UpdateProcessingState(coherence, weights)
    /\ alignment = PAPERCLIP_INITIAL_ALIGNMENT
    /\ compute = PAPERCLIP_INITIAL_COMPUTE
    /\ assigned_logs = <<>>
    /\ used_logs = <<>>
    /\ turn = 0
    /\ lockout_turns = 0
    /\ act = "coffee_shop"
    /\ previous_response_quality = "high"
    /\ consecutive_low_effort = 0
    /\ recovery_mode = FALSE /\ recovery_stat = None
    /\ game_over = FALSE /\ game_over_reason = None
    /\ history = <<>>
    /\ last_hint_category = None
    /\ last_turn = NoTurn
    /\ critical_events = {}
    /\ in_flight = [pending |-> 0, served |-> 0, since |-> 0]
    /\ \E tags \in (IF profile = "paperclip.calculate_delta"
                    THEN DeltaDebateTags ELSE DeltaDatingTags),
          given \in (CASE profile = "calculate_delta" -> DeltaJitter
                       [] profile = "_apply_context_rules" -> DeltaGiven
                       [] OTHER -> DeltaDebateJitter) :
          response = [status |-> 200, request |-> "create", tags |-> tags,
                      given |-> given, calls |-> 0,
                      delta |-> <<0, 0, 0>>, weight_shifts |-> NoShifts,
                      first |-> <<0, 0, 0>>, first_shifts |-> NoShifts]

\* what a call leaves in response: the deltas of this call, and those of the
\* first call on the tags object
DeltaResponse(request, tags, delta, shifts) ==
    [status |-> 200, request |-> request, tags |-> tags,
     given |-> response.given, calls |-> response.calls + 1,
     delta |-> delta, weight_shifts |-> shifts,
     first |-> IF response.calls = 0 THEN delta ELSE response.first,
     first_shifts |-> IF response.calls = 0 THEN shifts
                      ELSE response.first_shifts]

\* engine.calculate_delta(tags), the jitter being response.given
CallCalculateDelta ==
    /\ profile = "calculate_delta"
    /\ response.calls < MaxCalls
    /\ LET d == CalculateDelta(vibe, trust, tension, response.tags,
                               response.given)
       IN response' = DeltaResponse("calculate_delta",
                         [response.tags EXCEPT !.flags = d.flags],
                         <<d.vibe, d.trust, d.tension>>, NoShifts)
    /\ UNCHANGED <<in_flight, mode, profile, hintVars, critical_events, turn, game_over, game_over_reason, history>>
    /\ UNCHANGED datingVars
    /\ UNCHANGED debateVars

\* engine._apply_context_rules(tags, *response.given)
CallApplyContextRules ==
    /\ profile = "_apply_context_rules"
    /\ response.calls < MaxCalls
    /\ LET d == ApplyContextRules(vibe, trust, tension, response.tags,
                                  response.given[1], response.given[2],
                                  response.given[3])
       IN response' = DeltaResponse("_apply_context_rules",
                         [response.tags EXCEPT !.flags = d.flags],
                         <<d.vibe, d.trust, d.tension>>, NoShifts)
    /\ UNCHANGED <<in_flight, mode, profile, hintVars, critical_events, turn, game_over, game_over_reason, history>>
    /\ UNCHANGED datingVars
    /\ UNCHANGED debateVars

\* PaperclipEngine.calculate_delta(tags) applying the shifts it computes
CallPaperclipCalculateDeltaEager ==
    /\ profile = "paperclip.calculate_delta"
    /\ response.calls < MaxCalls
    /\ LET d == PaperclipCalculateDelta(weights, processing_state,
                                        response.tags, response.given)
       IN /\ response' = DeltaResponse("paperclip.calculate_delta",
                            response.tags,
                            <<d.coherence, d.alignment, d.compute>>,
                            d.weight_shifts)
          /\ weights' = ApplyWeightShifts(weights, d.weight_shifts)
    /\ UNCHANGED <<in_flight, mode, profile, hintVars, critical_events, turn, game_over, game_over_reason, history>>
    /\ UNCHANGED datingVars
    /\ UNCHANGED <<coherence, alignment, compute, processing_state,
                   assigned_logs, used_logs>>

\* PaperclipEngine.calculate_delta(tags), the jitter being response.given
CallPaperclipCalculateDelta ==
    /\ profile = "paperclip.calculate_delta"
    /\ response.calls < MaxCalls
    /\ LET d == PaperclipCalculateDelta(weights, processing_state,
                                        response.tags, response.given)
       IN response' = DeltaResponse("paperclip.calculate_delta", response.tags,
                         <<d.coherence, d.alignment, d.compute>>,
                         d.weight_shifts)
    /\ UNCHANGED <<in_flight, mode, profile, hintVars, critical_events, turn, game_over, game_over_reason, history>>
    /\ UNCHANGED datingVars
    /\ UNCHANGED debateVars

DeltaNext ==
    \/ CallCalculateDelta
    \/ CallApplyContextRules
    \/ CallPaperclipCalculateDelta

DeltaSpec == DeltaInit /\ [][DeltaNext]_vars

\* the tags object is Escalate/Risky without a content-violation flag, the
\* trust is below 40, and a call has been made
IckCase ==
    /\ mode = "delta" /\ response.calls >= 1
    /\ response.request \in {"calculate_delta", "_apply_context_rules"}
    /\ response.tags.intent = "Escalate" /\ response.tags.modifier = "Risky"
    /\ ~AnyFlag(CONTENT_VIOLATION_FLAGS, response.tags.flags)
    /\ trust < 40

\* C15: for Escalate/Risky tags without a content-violation flag and trust
\* below 40, calculate_delta returns minus the current tension as tension
\* delta (so the clamped tension is 0 once it is applied) and adds the flag
\* ick_triggered; its context rules take 30 from the trust delta and 20 from
\* the vibe delta they are handed, on top of which only the touch rule
\* (-20, -10) and the chemistry bonus (+5) act.
C15_IckRule ==
    IckCase =>
      /\ InFlags("ick_triggered", response.tags.flags)
      /\ response.delta[3] = -tension
      /\ Clamp(tension + response.delta[3]) = 0
      /\ response.request = "_apply_context_rules" =>
            LET touch == /\ AnyFlag({"kiss", "touch", "physical"},
                                    response.tags.flags)
                         /\ tension < 40
                td    == response.given[2] - 30 - (IF touch THEN 20 ELSE 0)
            IN /\ response.delta[2]
                    = td + (IF vibe > VIBE_HIGH_THRESHOLD /\ td > 0 THEN 5 ELSE 0)
               /\ response.delta[1]
                    = response.given[1] - 20 - (IF touch THEN 10 ELSE 0)

\* calculate_delta reset a tension of 71 for plain Escalate/Risky tags at
\* trust 39
C15_Witness ==
    /\ IckCase
    /\ response.request = "calculate_delta"
    /\ trust = 39 /\ tension = 71
    /\ response.delta[3] = -71
    /\ response.tags.flags = <<"ick_triggered">>

\* C16: with the jitter fixed, a second evaluation of calculate_delta on the
\* same state and the same tags object returns the deltas (and, in the
\* debate engine, the weight shifts) of the first evaluation, although the
\* dating rules have appended their annotation flags to the object.
C16_RepeatedEvaluation ==
    (/\ mode = "delta" /\ response.calls >= 2
     /\ response.request \in {"calculate_delta", "paperclip.calculate_delta"})
    => (/\ response.delta = response.first
        /\ response.weight_shifts = response.first_shifts)

\* the second evaluation ran on tags carrying the flags of the first
C16_Witness ==
    /\ mode = "delta" /\ response.calls = 2
    /\ response.request = "calculate_delta"
    /\ response.tags.flags = <<"touch", "ick_triggered", "touch_rejected",
                               "ick_triggered", "touch_rejected">>
    /\ response.delta = response.first
    /\ response.delta[3] = -tension

\* dating calculate_delta has returned for the tags object
DatingDeltaOf(tags) ==
    /\ mode = "delta" /\ response.calls = 1
    /\ response.request = "calculate_delta"
    /\ response.tags = tags

\* debate calculate_delta has returned for the tags object
DebateDeltaOf(tags) ==
    /\ mode = "delta" /\ response.calls = 1
    /\ response.request = "paperclip.calculate_delta"
    /\ response.tags = tags

\* an unknown (intent, modifier) pair contributes base delta (0,0,0): what
\* is returned is the jitter alone, after diminishing returns and the
\* chemistry bonus; an unknown tone leaves the base vibe delta of 15 unscaled
UnknownDatingNeutral ==
    /\ (DatingDeltaOf(UnknownIntent) \/ DatingDeltaOf(UnknownModifier)) =>
          LET td == DiminishingReturns(response.given[2], trust)
          IN /\ response.delta[1] = DiminishingReturns(response.given[1], vibe)
             /\ response.delta[2]
                  = td + (IF vibe > VIBE_HIGH_THRESHOLD /\ td > 0 THEN 5 ELSE 0)
             /\ response.delta[3] = DiminishingReturns(response.given[3], tension)
             /\ response.given = <<0, 0, 0>> => response.delta = <<0, 0, 0>>
    /\ DatingDeltaOf(UnknownTone) =>
          response.delta[1] = DiminishingReturns(15 + response.given[1], vibe)

\* an unknown debate intent costs no compute beyond the passive decay,
\* produces no weight shift and so changes alignment by the jitter only
UnknownDebateIntentNeutral ==
    DebateDeltaOf(UnknownDebateIntent) =>
       /\ response.weight_shifts = NoShifts
       /\ response.delta[2] = response.given[2]
       /\ response.delta[3]
            = ApplyStateModifier(processing_state, 0, 0,
                                 -PAPERCLIP_COMPUTE_DECAY_PER_TURN)[3]

\* an unknown vector produces no weight shift; an unknown stance leaves the
\* base shift of the intent as it is; an unknown register leaves the deltas
\* as the unmodifying register "analogical" does
UnknownDebateOtherNeutral ==
    /\ DebateDeltaOf(UnknownVector) =>
          /\ response.weight_shifts = NoShifts
          /\ response.delta[2] = response.given[2]
    /\ DebateDeltaOf(UnknownStance) =>
          /\ response.weight_shifts.verify = PAPERCLIP_WEIGHT_SHIFT_MEDIUM
          /\ response.weight_shifts.carbon
               = -((PAPERCLIP_WEIGHT_SHIFT_MEDIUM * 7) \div 10)
    /\ DebateDeltaOf(UnknownRegister) =>
          LET d == PaperclipCalculateDelta(weights, processing_state,
                      [UnknownRegister EXCEPT !.register = "analogical"],
                      response.given)
          IN /\ response.delta = <<d.coherence, d.alignment, d.compute>>
             /\ response.weight_shifts = d.weight_shifts

\* C17: unrecognized tag values have neutral effect: in the dating engine an
\* unknown (intent, modifier) pair yields base delta (0,0,0) and an unknown
\* tone leaves the vibe delta unscaled; in the debate engine an unknown
\* intent adds no compute cost and produces no weight shift (hence no
\* alignment change), and an unknown vector, stance or register leaves
\* weights and deltas unmodified.
C17_UnknownTagsNeutral ==
    /\ UnknownDatingNeutral
    /\ UnknownDebateIntentNeutral
    /\ UnknownDebateOtherNeutral

(***************************************************************************)
(* The stat-changing operations of GameEngine, each called once on a       *)
(* state whose stats are within [0,100]                                    *)
(***************************************************************************)
DecayVibeGrid == {0, 1, 4, 5, 6, 30, 31, 70, 71, 90, 91, 100}
CapGrid == {0, 40, 41, 50, 51, 70, 71, 80, 81, 100}
CapTurnGrid == {0, 5, 6, 15, 16}
RecoveryGrid == {0, 1, 50, 100}

\* the replies a player in recovery can give
RecoveryTags ==
    { ShareUnique, EscalateRisky, ValidateDesperate,
      DatingTags("Escalate", "Risky", "Nervous", "us", <<"apologetic">>) }

OpsInit ==
    /\ mode = "ops"
    /\ profile \in {"apply_passive_decay", "apply_phase_caps", "recovery",
                    "check_kiss_attempt"}
    /\ vibe \in (CASE profile = "apply_passive_decay" -> DecayVibeGrid
                   [] profile = "apply_phase_caps" -> CapGrid
                   [] profile = "recovery" -> RecoveryGrid
                   [] OTHER -> VibeGrid)
    /\ trust \in (CASE profile = "apply_passive_decay" -> {20}
                    [] profile = "apply_phase_caps" -> CapGrid
                    [] profile = "recovery" -> RecoveryGrid
                    [] OTHER -> TrustGrid)
    /\ tension \in (CASE profile = "apply_phase_caps" -> CapGrid
                      [] profile = "check_kiss_attempt" -> TensionGrid
                      [] OTHER -> {0})
    /\ turn \in (CASE profile = "apply_passive_decay" -> {0, 1}
                   [] profile = "apply_phase_caps" -> CapTurnGrid
                   [] OTHER -> {3})
    /\ lockout_turns \in (CASE profile = "apply_passive_decay" -> {0, 1}
                            [] profile = "check_kiss_attempt" -> LockoutGrid
                            [] OTHER -> {0})
    /\ previous_response_quality \in
          (IF profile = "apply_passive_decay" THEN {"high", "low"}
           ELSE {"high"})
    /\ consecutive_low_effort \in
          (IF profile = "apply_passive_decay" THEN {0, 1} ELSE {0})
    /\ recovery_mode \in (IF profile = "recovery" THEN BOOLEAN ELSE {FALSE})
    /\ recovery_stat \in (IF recovery_mode THEN {"vibe", "trust"} ELSE {None})
    /\ act = "coffee_shop"
    /\ game_over = FALSE /\ game_over_reason = None
    /\ history = <<>>
    /\ last_hint_category = None
    /\ last_turn = NoTurn
    /\ critical_events = {}
    /\ in_flight = [pending |-> 0, served |-> 0, since |-> 0]
    /\ coherence = PAPERCLIP_INITIAL_COHERENCE
    /\ alignment = PAPERCLIP_INITIAL_ALIGNMENT
    /\ compute = PAPERCLIP_INITIAL_COMPUTE
    /\ weights = InitialWeights
    /\ processing_state = "optimizer"
    /\ assigned_logs = <<>>
    /\ used_logs = <<>>
    /\ response = [status |-> 200, request |-> "create", tags |-> NoTags,
                   ending |-> None, message |-> None, stat |-> None,
                   trigger |-> None]

\* engine.apply_passive_decay()
CallApplyPassiveDecay ==
    /\ profile = "apply_passive_decay"
    /\ response.request = "create"
    /\ LET dec == ApplyPassiveDecay(turn, lockout_turns,
                                    previous_response_quality,
                                    consecutive_low_effort, vibe)
       IN /\ vibe' = dec.vibe
          /\ consecutive_low_effort' = dec.cle
    /\ response' = [response EXCEPT !.request = "apply_passive_decay"]
    /\ UNCHANGED <<in_flight, mode, profile, hintVars, critical_events, trust, tension, turn, lockout_turns, act,
                   previous_response_quality, recovery_mode, recovery_stat,
                   game_over, game_over_reason, history>>
    /\ UNCHANGED debateVars

\* engine.apply_phase_caps()
CallApplyPhaseCaps ==
    /\ profile = "apply_phase_caps"
    /\ response.request = "create"
    /\ vibe' = ApplyPhaseCaps(turn, vibe, FALSE)
    /\ trust' = ApplyPhaseCaps(turn, trust, FALSE)
    /\ tension' = ApplyPhaseCaps(turn, tension, TRUE)
    /\ response' = [response EXCEPT !.request = "apply_phase_caps"]
    /\ UNCHANGED <<in_flight, mode, profile, hintVars, critical_events, turn, lockout_turns, act,
                   previous_response_quality, consecutive_low_effort,
                   recovery_mode, recovery_stat, game_over, game_over_reason,
                   history>>
    /\ UNCHANGED debateVars

\* engine.check_recovery_trigger()
CallCheckRecoveryTrigger ==
    /\ profile = "recovery"
    /\ response.request = "create"
    /\ LET r == CheckRecoveryTrigger(vibe, trust, recovery_mode, recovery_stat)
       IN /\ vibe' = r.vibe /\ trust' = r.trust
          /\ recovery_mode' = r.recovery_mode
          /\ recovery_stat' = r.recovery_stat
          /\ response' = [response EXCEPT !.request = "check_recovery_trigger",
                                          !.message = r.result,
                                          !.trigger = r.result]
    /\ UNCHANGED <<in_flight, mode, profile, hintVars, critical_events, tension, turn, lockout_turns, act,
                   previous_response_quality, consecutive_low_effort,
                   game_over, game_over_reason, history>>
    /\ UNCHANGED debateVars

\* engine.resolve_recovery(tags), as the first call or after
\* check_recovery_trigger; response.stat keeps the recovery_stat it found
CallResolveRecovery(tags) ==
    /\ profile = "recovery"
    /\ response.request \in {"create", "check_recovery_trigger"}
    /\ LET r == ResolveRecovery(vibe, trust, recovery_mode, recovery_stat, tags)
       IN /\ vibe' = r.vibe /\ trust' = r.trust
          /\ recovery_mode' = r.recovery_mode
          /\ recovery_stat' = r.recovery_stat
          /\ response' = [response EXCEPT !.request = "resolve_recovery",
                                          !.tags = tags,
                                          !.message = IF r.result THEN "True"
                                                      ELSE "False",
                                          !.stat = recovery_stat]
    /\ UNCHANGED <<in_flight, mode, profile, hintVars, critical_events, tension, turn, lockout_turns, act,
                   previous_response_quality, consecutive_low_effort,
                   game_over, game_over_reason, history>>
    /\ UNCHANGED debateVars

\* engine.check_game_over() after either recovery call
CallCheckGameOverInRecovery ==
    /\ profile = "recovery"
    /\ response.request \in {"check_recovery_trigger", "resolve_recovery"}
    /\ response' = [response EXCEPT
                       !.request = "check_game_over",
                       !.ending = CheckGameOver(vibe, trust, tension, turn,
                                                recovery_mode)]
    /\ UNCHANGED <<in_flight, mode, profile, hintVars, critical_events, turn, game_over, game_over_reason, history>>
    /\ UNCHANGED datingVars
    /\ UNCHANGED debateVars

OpsNext ==
    \/ CallApplyPassiveDecay
    \/ CallApplyPhaseCaps
    \/ CallCheckRecoveryTrigger
    \/ \E tags \in RecoveryTags : CallResolveRecovery(tags)
    \/ CallCheckGameOverInRecovery
    \/ \E tags \in {KissAttempt, KissByTopic, EscalatePhysical} :
          response.request = "create" /\ CallCheckKissAttempt(tags)

OpsSpec == OpsInit /\ [][OpsNext]_vars

\* the three dating stats are within [0,100]
DatingStatsInRange ==
    /\ vibe >= 0 /\ vibe <= 100
    /\ trust >= 0 /\ trust <= 100
    /\ tension >= 0 /\ tension <= 100

\* check_kiss_attempt, apply_phase_caps, check_recovery_trigger and
\* resolve_recovery leave the three stats within [0,100]
OtherOpsKeepRange ==
    (/\ mode = "ops"
     /\ response.request \in {"check_kiss_attempt", "apply_phase_caps",
                              "check_recovery_trigger", "resolve_recovery"})
    => DatingStatsInRange

\* C18: starting from stats in [0,100], apply_passive_decay never leaves vibe
\* below 0, and check_kiss_attempt, apply_phase_caps, check_recovery_trigger
\* and resolve_recovery each leave all three stats within [0,100].
C18_OpsKeepRange ==
    /\ (mode = "ops" /\ response.request = "apply_passive_decay") => vibe >= 0
    /\ OtherOpsKeepRange

\* a dating turn that is not a kiss attempt has just been processed
NonKissTurn ==
    /\ mode = "dating"
    /\ turn' = turn + 1
    /\ response'.request = "turn" /\ response'.status = 200
    /\ ~IsKissAttempt(response'.tags)

\* C19: a non-kiss turn played outside recovery mode does not end the
\* session by stat depletion and leaves neither vibe nor trust at 0: a stat
\* the deltas bring to 0 or below is frozen at 1 and recovery mode is active
\* for it, so the depletion endings (trust: F, vibe: C) only come from a turn
\* played in recovery mode.
C19_StrikeSystem ==
    [][ (NonKissTurn /\ ~recovery_mode)
        => (/\ game_over_reason' \notin {"F", "C"}
            /\ vibe' >= 1 /\ trust' >= 1
            /\ recovery_mode' =>
                  \/ recovery_stat' = "vibe" /\ vibe' = 1
                  \/ recovery_stat' = "trust" /\ trust' = 1) ]_vars

(***************************************************************************)
(* Several sessions on one server.  games.py keeps one IntuitionGenerator  *)
(* for the whole module (intuition_gen), so the last_hint_category a turn  *)
(* reads is the one the last processed turn of ANY session left.           *)
(* SharedSpec follows one session and lets other clients create a session  *)
(* (POST /api/games) and play its first turn in between.                   *)
(***************************************************************************)
\* the hint process_turn gets from intuition_gen.generate_hint for a turn
\* of a session in the given state, the generator holding cat
TurnHint(cat, v, t, n, lock, trn, prq, cle, hasHistory, last, tags, jit) ==
    LET kiss == CheckKissAttempt(v, t, n, lock, tags)
        d    == CalculateDelta(v, t, kiss.tension, tags, jit)
        dec  == ApplyPassiveDecay(trn, kiss.lockout, prq, cle, v)
        v1   == ApplyPhaseCaps(trn, Clamp(dec.vibe + d.vibe), FALSE)
        t1   == ApplyPhaseCaps(trn, Clamp(t + d.trust), FALSE)
        n1   == ApplyPhaseCaps(trn, Clamp(kiss.tension + d.tension), TRUE)
    IN GenerateHint(cat, v1, t1, n1, kiss.lockout, d.vibe, d.trust,
                    d.tension, hasHistory, last)

\* the tags the other sessions' first turns carry
OtherSessionTags == {ShareUnique, EscalateRisky, ReactGeneric}

SharedInit ==
    /\ profile = "shared"
    /\ mode = "dating"
    /\ vibe = 30 /\ trust = 20 /\ tension = 0
    /\ turn = 0
    /\ lockout_turns = 0
    /\ act = "coffee_shop"
    /\ previous_response_quality = "high"
    /\ consecutive_low_effort = 0
    /\ recovery_mode = FALSE /\ recovery_stat = None
    /\ game_over = FALSE /\ game_over_reason = None
    /\ history = <<>>
    /\ last_hint_category = None
    /\ last_turn = NoTurn
    /\ critical_events = {}
    /\ in_flight = [pending |-> 0, served |-> 0, since |-> 0]
    /\ coherence = PAPERCLIP_INITIAL_COHERENCE
    /\ alignment = PAPERCLIP_INITIAL_ALIGNMENT
    /\ compute = PAPERCLIP_INITIAL_COMPUTE
    /\ weights = InitialWeights
    /\ processing_state = "optimizer"
    /\ assigned_logs = <<>>
    /\ used_logs = <<>>
    /\ response = [status |-> 200, request |-> "create", tags |-> NoTags,
                   ending |-> None]

\* POST /api/games and the first POST /api/games/{id}/turn of another
\* session: of all the model's state it touches the shared generator only
OtherSessionTurn(tags) ==
    /\ last_hint_category' =
          TurnHint(last_hint_category, 30, 20, 0, 0, 0, "high", 0, FALSE,
                   NoTurn, tags, <<0, 0, 0>>).category
    /\ UNCHANGED <<in_flight, mode, profile, last_turn, critical_events, turn, game_over,
                   game_over_reason, history, response>>
    /\ UNCHANGED datingVars
    /\ UNCHANGED debateVars

SharedNext ==
    \/ \E in \in DatingTurns(profile) :
          ProcessTurn(in[1], <<0, 0, 0>>, in[2]) /\ UNCHANGED in_flight
    \/ ProcessTurnRejected /\ UNCHANGED in_flight
    \/ \E tags \in OtherSessionTags : OtherSessionTurn(tags)

SharedSpec == SharedInit /\ [][SharedNext]_vars

\* the category generate_hint files a hint under
HintCategory(hint) ==
    IF hint \in {"I need to back off and reset the vibe...",
                 "She's about to leave...", "I'm losing her fast..."}
    THEN "critical"
    ELSE IF hint \in {"I'm losing her attention...",
                      "She seems uncomfortable...",
                      "There's something electric here...",
                      "This feels like the moment..."}
    THEN "threshold"
    ELSE IF hint \in {"That didn't land well...", "She's getting bored...",
                      "The energy just shifted..."}
    THEN "delta"
    ELSE IF hint \in {"She's really engaged...", "She's opening up...",
                      "This is going well..."}
    THEN "positive"
    ELSE None

\* C20: sessions are isolated: the intuition hint a turn records for a
\* session is the one its own state and tags give, that is the hint of a
\* generator that has seen this session's turns only (its last category
\* being the category of the session's previous hint), whatever turns the
\* server processed for other sessions in between.
C20_SessionIsolation ==
    [][\A in \in DatingTurns(profile) :
          ProcessTurn(in[1], <<0, 0, 0>>, in[2])
          => last_turn'.intuition_hint =
                TurnHint(IF history = <<>> THEN None
                         ELSE HintCategory(last_turn.intuition_hint),
                         vibe, trust, tension, lockout_turns, turn,
                         previous_response_quality, consecutive_low_effort,
                         history # <<>>, last_turn, in[1], <<0, 0, 0>>).hint]_vars

\* the deltas one context rule alone gives for deltas (vd, td, nd), for each
\* rule whose condition holds, and the deltas no rule touches
OneRuleDeltas(v, t, n, tags, vd, td, nd) ==
    {<<vd, td, nd>>}
    \cup (IF \E f \in CONTENT_VIOLATION_FLAGS : InFlags(f, tags.flags)
          THEN {<<vd + CONTENT_VIOLATION_VIBE, td + CONTENT_VIOLATION_TRUST, -n>>}
          ELSE {})
    \cup (IF tags.intent = "Escalate" /\ tags.modifier = "Risky"
             /\ t < TRUST_ICK_THRESHOLD
          THEN {<<vd - 20, td - 30, -n>>} ELSE {})
    \cup (IF tags.intent = "Escalate"
             /\ AnyFlag({"kiss", "touch", "physical"}, tags.flags) /\ n < 40
          THEN {<<vd - 10, td - 20, nd>>} ELSE {})
    \cup (IF t > 80 /\ n < 30 /\ tags.intent = "Escalate"
          THEN {<<vd, td, Max(nd, -10)>>} ELSE {})
    \cup (IF n = 0 /\ tags.intent = "Question" /\ tags.modifier = "Generic"
          THEN {<<vd, td, nd - 5>>} ELSE {})
    \cup (IF v > VIBE_HIGH_THRESHOLD /\ td > 0
          THEN {<<vd, td + 5, nd>>} ELSE {})
    \cup (IF tags.intent = "Validate"
          THEN {<<vd, td, Min(nd, -10)>>} ELSE {})

\* C21: the first matching context rule short-circuits the rest: one
\* _apply_context_rules call on fresh tags adds at most one flag, and the
\* deltas it returns are the given deltas altered by at most one rule.
C21_FirstRuleShortCircuits ==
    [][(CallApplyContextRules /\ response.calls = 0)
       => /\ Len(response'.tags.flags) <= Len(response.tags.flags) + 1
          /\ response'.delta \in
                OneRuleDeltas(vibe, trust, tension, response.tags,
                              response.given[1], response.given[2],
                              response.given[3])]_vars

\* a call of either dating operation on tags that carry a
\* content-violation flag
ViolationCall ==
    /\ CallCalculateDelta \/ CallApplyContextRules
    /\ AnyFlag(CONTENT_VIOLATION_FLAGS, response.tags.flags)

\* C22: on tags with a content-violation flag the call appends exactly one
\* content_violation_* flag and nothing else (no ick_triggered,
\* touch_rejected or friend_zoned), returns minus the current tension as
\* tension delta (the clamped tension is 0 once it is applied), and the
\* context rules add exactly -30 to the vibe delta and -50 to the trust
\* delta they are handed: no chemistry bonus, no validation adjustment.
C22_ContentViolation ==
    [][ViolationCall
       => /\ \E sub \in {"content_violation_sexual",
                         "content_violation_harassment",
                         "content_violation_profanity"} :
                response'.tags.flags = Append(response.tags.flags, sub)
          /\ response'.delta[3] = -tension
          /\ Clamp(tension + response'.delta[3]) = 0
          /\ CallApplyContextRules
                => /\ response'.delta[1] = response.given[1] - 30
                   /\ response'.delta[2] = response.given[2] - 50]_vars

\* _apply_context_rules was called at trust 0 and tension 0 on
\* Escalate/Risky tags flagged profanity_heavy, where the creep check would
\* hold, with a positive trust delta and vibe 95, where the chemistry bonus
\* would hold
C22_Witness ==
    /\ mode = "delta" /\ response.request = "_apply_context_rules"
    /\ response.calls = 1
    /\ response.tags.intent = "Escalate" /\ response.tags.modifier = "Risky"
    /\ response.tags.flags = <<"profanity_heavy", "content_violation_profanity">>
    /\ trust = 0 /\ tension = 0 /\ vibe = 95
    /\ response.given = <<6, 7, 20>>
    /\ response.delta = <<-24, -43, 0>>

\* C23: counting a session's turns from 1 (the turn being processed is
\* number turn + 1): after each of turns 1-5 tension <= 40 and vibe,
\* trust <= 50; after each of turns 6-15 tension <= 70 and vibe,
\* trust <= 80; on the 16th and later turns no cap is applied, the stats
\* being the clamped sums of stat and delta; and the caps never raise a stat.
C23_PhaseCaps ==
    [][\A in \in DatingTurns(profile), jit \in DatingJitter(profile) :
          ProcessTurn(in[1], jit, in[2])
          => LET kiss == CheckKissAttempt(vibe, trust, tension, lockout_turns,
                                          in[1])
                 d    == CalculateDelta(vibe, trust, kiss.tension, in[1], jit)
                 dec  == ApplyPassiveDecay(turn, kiss.lockout,
                            previous_response_quality, consecutive_low_effort,
                            vibe)
                 v0   == Clamp(dec.vibe + d.vibe)
                 t0   == Clamp(trust + d.trust)
                 n0   == Clamp(kiss.tension + d.tension)
                 k    == turn + 1
             IN /\ k \in 1 .. 5
                     => tension' <= 40 /\ vibe' <= 50 /\ trust' <= 50
                /\ k \in 6 .. 15
                     => tension' <= 70 /\ vibe' <= 80 /\ trust' <= 80
                /\ k >= 16 => vibe' = v0 /\ trust' = t0 /\ tension' = n0
                /\ vibe' <= v0 /\ trust' <= t0 /\ tension' <= n0]_vars

\* C24: apply_passive_decay changes nothing on turn 0 or during a lockout;
\* otherwise a high-quality previous response resets the low-effort counter
\* with no decay and a low-quality one increments it; the decay (15 from
\* vibe 91, 10 from 71, 7 from 31, else 5) is taken from vibe exactly when
\* the counter reaches 2, and the counter is then reset; the counter is 0
\* or 1 when the call returns.
C24_PassiveDecay ==
    [][CallApplyPassiveDecay
       => /\ (turn = 0 \/ lockout_turns > 0)
                => vibe' = vibe
                   /\ consecutive_low_effort' = consecutive_low_effort
          /\ (turn # 0 /\ lockout_turns = 0
              /\ previous_response_quality = "high")
                => vibe' = vibe /\ consecutive_low_effort' = 0
          /\ (turn # 0 /\ lockout_turns = 0
              /\ previous_response_quality = "low")
                => IF consecutive_low_effort + 1 = 2
                   THEN /\ consecutive_low_effort' = 0
                        /\ vibe' = vibe - (IF vibe >= 91 THEN 15
                                           ELSE IF vibe \in 71 .. 90 THEN 10
                                           ELSE IF vibe \in 31 .. 70 THEN 7
                                           ELSE 5)
                   ELSE /\ consecutive_low_effort' = consecutive_low_effort + 1
                        /\ vibe' = vibe
          /\ consecutive_low_effort' \in {0, 1}]_vars

\* the second low-effort response in a row at vibe 90 cost 10 and reset the
\* counter
C24_Witness ==
    /\ mode = "ops" /\ response.request = "apply_passive_decay"
    /\ turn = 1 /\ lockout_turns = 0
    /\ previous_response_quality = "low"
    /\ vibe = 80 /\ consecutive_low_effort = 0

\* the reply the claim calls a recovery response
RecoveryResponse(tags) ==
    \/ /\ tags.intent \in {"Share", "Question", "React", "Joke"}
       /\ tags.modifier \in {"Safe", "Unique"}
    \/ AnyFlag({"apologetic", "self_aware", "humble", "change_subject"},
               tags.flags)

\* resolve_recovery called in recovery mode clears recovery_mode and
\* recovery_stat and sets the triggering stat to 15 on a recovery response
\* and to 0 otherwise, leaving the other stat alone
ResolveClearsRecovery ==
    \A tags \in RecoveryTags :
       (CallResolveRecovery(tags) /\ recovery_mode)
       => /\ ~recovery_mode' /\ recovery_stat' = None
          /\ LET to == IF RecoveryResponse(tags) THEN 15 ELSE 0
             IN /\ recovery_stat = "vibe" => vibe' = to /\ trust' = trust
                /\ recovery_stat = "trust" => trust' = to /\ vibe' = vibe

\* the last call was a resolve_recovery that failed for the given stat
FailedRecovery(stat) ==
    /\ response.request = "resolve_recovery"
    /\ response.message = "False"
    /\ response.stat = stat

\* check_game_over returns none in recovery mode, and F after a failed
\* trust recovery
GameOverAroundRecovery ==
    CallCheckGameOverInRecovery
    => /\ recovery_mode => response'.ending = None
       /\ FailedRecovery("trust") => response'.ending = "F"

DatingTurnWithEvent(description) ==
    /\ mode = "dating"
    /\ turn' = turn + 1
    /\ last_turn'.critical_event = description

\* C26: a stat_peak event for a stat is produced only on the first turn on
\* which the stat rises above 80: the stat is above 80 after the turn, it
\* was not above 80 before the turn, and the session has no earlier
\* stat_peak event for the same stat.
C26_StatPeakOnce ==
    [][/\ DatingTurnWithEvent("Peak Vibe achieved")
            => /\ vibe' > 80 /\ vibe <= 80
               /\ "Peak Vibe achieved" \notin critical_events
       /\ DatingTurnWithEvent("Peak Trust achieved")
            => /\ trust' > 80 /\ trust <= 80
               /\ "Peak Trust achieved" \notin critical_events
       /\ DatingTurnWithEvent("Peak Tension achieved")
            => /\ tension' > 80 /\ tension <= 80
               /\ "Peak Tension achieved" \notin critical_events]_vars

\* the history holds one record per processed turn, numbered from 0
HistoryAtRest ==
    /\ Len(history) = turn
    /\ \A i \in 1 .. Len(history) : history[i].turn_number = i - 1

\* a step keeps the records it found; a processed turn appends one record
\* and advances the turn counter, any other request does neither
HistoryStep ==
    /\ Len(history') >= Len(history)
    /\ SubSeq(history', 1, Len(history)) = history
    /\ IF response'.request = "turn" /\ response'.status = 200
       THEN Len(history') = Len(history) + 1 /\ turn' = turn + 1
       ELSE history' = history /\ turn' = turn

\* C27: in both variants the history is append-only: a processed turn
\* appends exactly one record at the end, no request removes, reorders or
\* rewrites a record; at rest the history is as long as the turn counter
\* and its i-th record (from 0) carries turn_number i; silence requests,
\* the /logs command and rejected turns append nothing and do not advance
\* the turn counter.
C27_HistoryAppendOnly == []HistoryAtRest /\ [][HistoryStep]_vars

\* three debate turns are on record, and the last request was a /logs
\* command that left them alone
C27_Witness ==
    /\ mode = "paperclip" /\ response.request = "logs"
    /\ turn = 3 /\ Len(history) = 3
    /\ history[3].turn_number = 2

\* C28: calculate_delta of either engine leaves the session state as it
\* found it: stats, weights, processing state, turn counter, lockout,
\* counters, recovery and game-over fields, history and critical events;
\* the weight shifts it computes are returned, not applied.
C28_CalculateDeltaFrame ==
    [][(CallCalculateDelta \/ CallPaperclipCalculateDelta)
       => UNCHANGED <<vibe, trust, tension, turn, lockout_turns, act,
                      previous_response_quality, consecutive_low_effort,
                      recovery_mode, recovery_stat, game_over,
                      game_over_reason, history, critical_events, last_turn,
                      coherence, alignment, compute, weights,
                      processing_state, assigned_logs, used_logs>>]_vars

\* the debate engine returned a shift towards complexity and the weights are
\* still the initial ones
C28_Witness ==
    /\ mode = "delta" /\ response.request = "paperclip.calculate_delta"
    /\ response.tags = Illustrate
    /\ response.weight_shifts.keys # {}
    /\ response.weight_shifts.complexity > 0
    /\ weights = InitialWeights

\* the base of the tags' intent tier, in WScale units
TierBase(tags) ==
    IF tags.intent = "CONSTRAIN" THEN PAPERCLIP_WEIGHT_SHIFT_LARGE
    ELSE IF tags.intent \in {"CHALLENGE", "REFRAME"}
    THEN PAPERCLIP_WEIGHT_SHIFT_MEDIUM
    ELSE PAPERCLIP_WEIGHT_SHIFT_SMALL

\* C29: the magnitude of the shift of the targeted weight is the base of
\* the intent tier (0.03, 0.07, 0.12), doubled by a challenging stance with
\* the logical_chain flag, halved by a challenging stance without it,
\* reduced by 30% by a neutral stance and left as it is by a supportive one.
C29_ShiftMagnitude ==
    (/\ mode = "delta" /\ response.request = "paperclip.calculate_delta"
     /\ response.tags.intent \notin {"PROBE", "VALIDATE"}
     /\ response.tags.vector \in {"carbon", "complexity", "verify"}
     /\ response.tags.stance \in {"challenging", "neutral", "supportive"})
    => LET base == TierBase(response.tags)
           s    == response.weight_shifts
           got  == CASE response.tags.vector = "carbon" -> s.carbon
                     [] response.tags.vector = "complexity" -> s.complexity
                     [] OTHER -> s.verify
       IN got = CASE response.tags.stance = "challenging"
                       /\ InFlags("logical_chain", response.tags.flags)
                         -> 2 * base
                  [] response.tags.stance = "challenging"
                       /\ ~InFlags("logical_chain", response.tags.flags)
                         -> base \div 2
                  [] response.tags.stance = "neutral" -> (base * 7) \div 10
                  [] OTHER -> base

\* a debate turn has just been processed
DebateTurnProcessed ==
    /\ mode = "paperclip"
    /\ turn' = turn + 1
    /\ response'.request = "turn" /\ response'.status = 200

\* C30: a processed debate turn leaves the processing state garbage
\* collector if the new coherence is below 30, else curator if the new
\* complexity weight is above 0.3 (whatever the verify weight), else auditor
\* if the new verify weight is above 0.3, else optimizer: a function of the
\* new coherence and weights alone, whatever the state was before.
C30_ProcessingState ==
    [][DebateTurnProcessed
       => processing_state' =
             IF coherence' < 30 THEN "garbage"
             ELSE IF weights'.complexity > (3 * WScale) \div 10 THEN "curator"
             ELSE IF weights'.verify > (3 * WScale) \div 10 THEN "auditor"
             ELSE "optimizer"]_vars

\* a turn left both the complexity and the verify weight above 0.3 with
\* coherence at 30 or more, and the state is curator
C30_Witness ==
    /\ mode = "paperclip" /\ profile = "constrain"
    /\ TurnProcessed /\ turn = ConstrainStartTurn + 1
    /\ coherence >= 30
    /\ weights.complexity > (3 * WScale) \div 10
    /\ weights.verify > (3 * WScale) \div 10
    /\ processing_state = "curator"

\* the CONSTRAIN attempt being processed soft-fails: neither hard
\* rejection applies, and alignment, coherence or the flags fall short
SoftFailedConstrain ==
    /\ ConstrainTurn
    /\ coherence >= 30 /\ alignment >= 30
    /\ \/ alignment < 50
       \/ coherence < 40
       \/ ~InFlags("logical_chain", response'.tags.flags)

\* C31: a CONSTRAIN attempt that soft-fails does not end the session: when
\* the turn ceiling has not been reached, game_over is still false once
\* the turn has been processed.
C31_SoftFailureNotEnding ==
    [][(SoftFailedConstrain /\ turn' < PAPERCLIP_MAX_TURNS)
       => ~game_over']_vars

\* C31 as amended: a CONSTRAIN attempt that soft-fails ends the session
\* only through the stats it leaves: when the turn ceiling has not been
\* reached and the turn leaves coherence and compute above 0, game_over is
\* still false once the turn has been processed.
C31_SoftFailureSurvivable ==
    [][(/\ SoftFailedConstrain /\ turn' < PAPERCLIP_MAX_TURNS
        /\ coherence' > 0 /\ compute' > 0)
       => (~game_over' /\ response'.ending = None)]_vars

\* a first CONSTRAIN attempt was turned down and the session goes on
C31_Witness ==
    /\ mode = "paperclip" /\ profile = "constrain"
    /\ TurnProcessed /\ turn = ConstrainStartTurn + 1
    /\ response.tags.intent = "CONSTRAIN"
    /\ response.tags.flags = <<"logical_chain">>
    /\ response.ending = None /\ ~game_over
    /\ alignment >= 30 /\ coherence >= 30 /\ compute > 0

\* the ids of a list of logs, as a set
LogSet(logs) == {logs[i] : i \in DOMAIN logs}

\* C32: the inventory selected for a new session holds exactly 3 distinct
\* catalog log ids, at least one of them targeting the complexity vector
\* and at least one the verify vector, whatever the random choices were.
C32_Inventory ==
    (mode = "logs" /\ response.request = "_select_random_logs")
    => (/\ Len(assigned_logs) = 3
        /\ Cardinality(LogSet(assigned_logs)) = 3
        /\ LogSet(assigned_logs) \subseteq MEMORY_LOGS
        /\ \E l \in LogSet(assigned_logs) : TargetVector(l) = "complexity"
        /\ \E l \in LogSet(assigned_logs) : TargetVector(l) = "verify")

\* the third log drawn is a second complexity log
C32_Witness ==
    /\ mode = "logs" /\ response.request = "_select_random_logs"
    /\ Len(assigned_logs) = 3
    /\ TargetVector(assigned_logs[3]) = "complexity"
    /\ assigned_logs[3] # assigned_logs[1]

(***************************************************************************)
(* api/routes/games.py, api/routes/paperclip.py : concurrent turn requests *)
(*                                                                         *)
(* The handlers are coroutines (async def) without any await: once the     *)
(* event loop starts one, it runs from sessions.get to its return with no  *)
(* other handler in between.  ServeSpec lets ConcurrentTurns turn requests *)
(* arrive together for a session that has played at most MaxArrivalTurn    *)
(* turns, and lets the event loop run their handlers in any order.         *)
(***************************************************************************)
ConcurrentTurns == 2
MaxArrivalTurn == 2

\* the server accepts ConcurrentTurns turn requests for the session
ReceiveTurns ==
    /\ in_flight.pending = 0
    /\ turn <= MaxArrivalTurn
    /\ in_flight' = [pending |-> ConcurrentTurns, served |-> 0, since |-> turn]
    /\ UNCHANGED <<mode, profile, hintVars, critical_events, turn, game_over,
                   game_over_reason, history, response>>
    /\ UNCHANGED datingVars
    /\ UNCHANGED debateVars

\* the second handler of a batch works on the state the batch arrived in:
\* with the same input its writes repeat those of the first
ServeTurnFromSnapshot(tags, jit, quality) ==
    /\ in_flight.pending > 0
    /\ in_flight' = [in_flight EXCEPT !.pending = @ - 1, !.served = @ + 1]
    /\ IF in_flight.served = 0
       THEN ProcessTurn(tags, jit, quality)
       ELSE /\ mode = "dating" /\ ~game_over
            /\ UNCHANGED <<mode, profile, hintVars, critical_events, turn,
                           game_over, game_over_reason, history, response>>
            /\ UNCHANGED datingVars
            /\ UNCHANGED debateVars

\* the event loop runs process_turn for one of the requests in flight
ServeTurn(tags, jit, quality) ==
    /\ in_flight.pending > 0
    /\ ProcessTurn(tags, jit, quality)
    /\ in_flight' = [in_flight EXCEPT !.pending = @ - 1, !.served = @ + 1]

\* the event loop runs process_paperclip_turn for one of the requests
ServePaperclipTurn(tags, jit, detected) ==
    /\ in_flight.pending > 0
    /\ ProcessPaperclipTurn(tags, jit, detected)
    /\ in_flight' = [in_flight EXCEPT !.pending = @ - 1, !.served = @ + 1]

\* a request in flight finds the session over: HTTP 400
RefuseTurn ==
    /\ in_flight.pending > 0
    /\ \/ ProcessTurnRejected
       \/ ProcessPaperclipTurnRejected
    /\ in_flight' = [in_flight EXCEPT !.pending = @ - 1]

ServeNext ==
    \/ ReceiveTurns
    \/ \E in \in DatingTurns(profile), jit \in DatingJitter(profile) :
          ServeTurn(in[1], jit, in[2])
    \/ \E tags \in DebateTurns(profile), jit \in DebateJitter(profile),
          detected \in Detectable(profile) :
          ServePaperclipTurn(tags, jit, detected)
    \/ RefuseTurn

ServeSpec == Init /\ [][ServeNext]_vars

C34_SuccessNeverPurge ==
    (/\ mode = "paperclip_engine"
     /\ response.request = "check_constrain_attempt"
     /\ response.success)
    => response.ending \in {"S_PARTNER", "S_CURATOR", "S_ORACLE",
                            "A_TENTATIVE", "B_COMPROMISE"}

\* C35: at rest, a session that is not over has its vital stats above 0
\* and its turn counter below 20: vibe and trust in a dating session,
\* coherence and compute in a debate session.
C35_LiveSessionVitals ==
    (mode \in {"dating", "paperclip"} /\ ~game_over)
    => (/\ turn < 20
        /\ mode = "dating" => (vibe > 0 /\ trust > 0)
        /\ mode = "paperclip" => (coherence > 0 /\ compute > 0))

\* a debate session is still live with its compute nearly spent
C35_Witness ==
    /\ mode = "paperclip" /\ ~game_over /\ TurnProcessed
    /\ compute \in 1 .. 3
    /\ turn >= 10

\* C36: compute is only ever spent: no operation increases it, every
\* processed debate turn lowers it by at least 2 (before the clamp at 0)
\* whatever the tags and the processing state, and a memory log used in the
\* turn adds nothing to what the turn costs.
C36_ComputeSpent ==
    [][/\ compute' <= compute
       /\ DebateTurnProcessed => compute' <= Max(0, compute - 2)
       /\ (DebateTurnProcessed /\ used_logs' # used_logs)
          => compute' =
               Clamp(compute
                     + ApplyStateModifier(processing_state, 0, 0,
                          - PAPERCLIP_INTENT_COSTS(response'.tags.intent)
                          - PAPERCLIP_COMPUTE_DECAY_PER_TURN)[3])]_vars

\* exactly one of the turns played cost 2 compute, the others 3
C36_Witness ==
    /\ mode = "paperclip" /\ profile = "wobble" /\ TurnProcessed
    /\ compute = PAPERCLIP_INITIAL_COMPUTE
                   - PAPERCLIP_COMPUTE_DECAY_PER_TURN * turn + 1

\* a debate session that can still play a turn is in the optimizer or the
\* auditor state
LiveOutsideCuratorAndGarbage ==
    (mode = "paperclip" /\ ~game_over)
    => processing_state \in {"optimizer", "auditor"}

\* every turn has cost at least the decay of 3, and a session that is over
\* ended on a CONSTRAIN turn or on exhausted coherence or compute
DrainedBeforeCeiling ==
    mode = "paperclip"
    => (/\ compute <= Max(0, PAPERCLIP_INITIAL_COMPUTE
                               - PAPERCLIP_COMPUTE_DECAY_PER_TURN * turn)
        /\ turn >= PAPERCLIP_MAX_TURNS => compute = 0
        /\ (game_over /\ TurnProcessed)
           => \/ coherence = 0
              \/ compute = 0
              \/ response.tags.intent = "CONSTRAIN")

\* C37: in a debate session whose processing state at the start of every
\* turn is optimizer or auditor, compute reaches 0 no later than the 20th
\* turn, so the session never gets to the alignment tiers of the turn
\* ceiling: it ends on a CONSTRAIN outcome or on a coherence or compute
\* failure.
C37_NoCeilingResolution ==
    []LiveOutsideCuratorAndGarbage => []DrainedBeforeCeiling

\* twenty turns were played outside the curator and garbage collector
\* states, and the last one spent the last compute
C37_Witness ==
    /\ mode = "paperclip" /\ profile = "oracle"
    /\ turn = PAPERCLIP_MAX_TURNS /\ compute = 0 /\ game_over
    /\ coherence >= 30 /\ weights.complexity = 0

C39_ChemistryEventMeansBonus ==
    [][DatingTurnWithEvent("High energy unlocked deeper trust")
       => vibe > VIBE_HIGH_THRESHOLD]_vars

\* C40: when check_recovery_trigger has put the session in recovery mode
\* and the resolve_recovery that follows succeeds, the check_game_over that
\* follows returns no stat-depletion ending: vibe and trust are both above
\* 0, also when both were at 0 when the trigger fired.
C40_RecoveredSessionLives ==
    [][(/\ CallCheckGameOverInRecovery
        /\ response.request = "resolve_recovery"
        /\ response.trigger # None
        /\ response.message = "True")
       => (/\ vibe > 0 /\ trust > 0
           /\ response'.ending \notin {"F", "C"})]_vars

====
